---- MODULE Spec2Model ----
(***************************************************************************)
(* Model of the chat API of chatbot_mastra: the auth middleware, the       *)
(* streaming turn route POST /chat/stream with its SSE framing, the        *)
(* history route GET /chat/history over the message store, the thread      *)
(* routes, the Google tool adapters, the agent loop between the model and  *)
(* the tools, the span table with the traces routes, and the chat page of  *)
(* the web client.                                                         *)
(*                                                                         *)
(* Text (user ids, thread ids, message contents, text chunks, frames) is   *)
(* a sequence of one-character strings, so that template strings and       *)
(* JSON.stringify are computed character by character.                     *)
(***************************************************************************)
EXTENDS Integers, Sequences, FiniteSets, TLC

----------------------------------------------------------------------------
(* Bounds of the model *)

\* the API as a whole (Spec)
MaxRequests == 3        \* HTTP requests handled in one run
MaxTurns == 2           \* turns started in one run
MaxOpen == 1            \* response streams open at the same time
MaxPlainChunks == 1     \* text chunks the model yields in one run

\* the streaming pipeline (SpecFraming)
FramingRequests == 2    \* HTTP requests handled in one run
FramingTurns == 1       \* turns started in one run
FramingOpen == 1        \* response streams open at the same time
MaxChunks == 2          \* text chunks the model yields in one run

\* the history over a seeded store (SpecSeeded)
SeededRequests == 3     \* HTTP requests handled in one run
SeededTurns == 2        \* turns started in one run
SeededOpen == 1         \* response streams open at the same time
MaxSeed == 2            \* messages already stored at start-up
MaxClock == 2           \* last value of the wall clock

\* thread management next to the chat (SpecThreads)
ThreadsRequests == 4    \* HTTP requests handled in one run
ThreadsTurns == 2       \* turns started in one run
ThreadsOpen == 1        \* response streams open at the same time

\* the tool adapters (SpecTools)
MaxConnections == 2     \* entries of an upstream contacts list
MaxListed == 2          \* entries of an upstream message list

\* the traces routes over the span table (SpecTraces)
MaxSpans == 2           \* rows of the span table

\* the trace recorder (SpecRecorder)
RecorderSpans == 3      \* spans recorded in one run

\* a turn that uses tools (SpecTurn)
TurnTurns == 1          \* turns started in one run
TurnChunks == 1         \* text chunks the model yields in one run
MaxToolRounds == 2      \* tool round-trips of one turn

\* the chat page (SpecClient, SpecReader)
MaxSends == 2           \* submits of the message input
MaxHistoryLoads == 1    \* history results that arrive
ReaderReads == 2        \* reads that carry the body, in SpecReader

\* the credential lookup of the stream route (SpecAccounts)
MaxAccounts == 2        \* rows of the account table
AccountsRequests == 2   \* HTTP requests handled in one run

----------------------------------------------------------------------------
(* Text and JavaScript values *)

\* "no value": the null session, an undefined trace id, the empty string.
Empty == <<>>

Users == { <<"u", "1">>, <<"u", "2">> }

\* auth.api.getSession yields null or the session of a user
SessionResults == {Empty} \cup Users

\* a JavaScript value taken from a JSON body or a query string
JsUndefined == [type |-> "undefined", val |-> Empty]
JsString(s) == [type |-> "string", val |-> s]

\* JavaScript truthiness (the operand of ! and of ||)
Truthy(v) ==
    CASE v.type = "string" -> v.val /= Empty
      [] v.type = "number" -> v.val /= <<"0">>
      [] OTHER -> FALSE

ThreadPrefix == <<"t", "h", "r", "e", "a", "d", "-">>

\* threadId of a JSON body; threadId of a query string, which may be empty
ThreadIdInputs ==
    { JsUndefined, JsString(<<"A">>), JsString(ThreadPrefix \o <<"u", "1">>) }

\* stream.traceId: undefined, or the id of the trace of the n-th request
Digit == <<"1", "2", "3", "4", "5", "6", "7", "8", "9">>

----------------------------------------------------------------------------
(* JSON.stringify and JSON.parse on strings *)

RECURSIVE EscapeAll(_)
EscapeAll(s) ==
    LET
        EscapeChar(c) ==
            CASE c = "\"" -> <<"\\", "\"">>
              [] c = "\\" -> <<"\\", "\\">>
              [] c = "\n" -> <<"\\", "n">>
              [] OTHER -> <<c>>
    IN  IF s = <<>> THEN <<>> ELSE EscapeChar(Head(s)) \o EscapeAll(Tail(s))

JSONstringify(s) == <<"\"">> \o EscapeAll(s) \o <<"\"">>

RECURSIVE UnescapeAll(_)
UnescapeAll(s) ==
    IF s = <<>> THEN <<>>
    ELSE IF Head(s) = "\\" /\ Len(s) >= 2
         THEN << (IF s[2] = "n" THEN "\n" ELSE s[2]) >> \o UnescapeAll(Tail(Tail(s)))
         ELSE <<Head(s)>> \o UnescapeAll(Tail(s))

\* JSON.parse of a JSON string literal (the text between the two quotes)
JSONparse(j) == UnescapeAll(SubSeq(j, 2, Len(j) - 1))

----------------------------------------------------------------------------
(* SSE frames, as handed to controller.enqueue *)

DataPrefix == <<"d", "a", "t", "a", ":", " ">>
FrameEnd == <<"\n", "\n">>
TraceEventLine == <<"e", "v", "e", "n", "t", ":", " ", "t", "r", "a", "c", "e", "I", "d", "\n">>

DataFrame(chunk) == DataPrefix \o JSONstringify(chunk) \o FrameEnd
DoneFrame == DataPrefix \o <<"[", "D", "O", "N", "E", "]">> \o FrameEnd

\* f.startsWith(prefix)
StartsWith(f, prefix) ==
    Len(f) >= Len(prefix) /\ SubSeq(f, 1, Len(prefix)) = prefix

----------------------------------------------------------------------------
(* The account table read by the credential lookup: u1 has linked Google,  *)
(* u2 has not.                                                             *)

AccountTable ==
    << [userId |-> <<"u", "1">>, providerId |-> "google", accessToken |-> <<"g", "1">>,
        createdAt |-> 1],
       [userId |-> <<"u", "1">>, providerId |-> "github", accessToken |-> <<"h", "1">>,
        createdAt |-> 1] >>

RECURSIVE SelectSeq2(_, _, _)
SelectSeq2(s, userId, providerId) ==
    IF s = <<>> THEN <<>>
    ELSE (IF Head(s).userId = userId /\ Head(s).providerId = providerId
          THEN <<Head(s)>> ELSE <<>>) \o SelectSeq2(Tail(s), userId, providerId)

----------------------------------------------------------------------------
(* State *)

VARIABLES
    store,   \* the stored messages, in storage order
    turns,   \* the turns started by agent.stream, with their response streams
    last,    \* the last HTTP exchange: request, response, what the handler did
    nreq,    \* number of requests handled
    clock,   \* the wall clock that stamps createdAt
    threads, \* the thread table of the memory, in creation order
    tool,    \* the tool adapter call in progress, with its upstream traffic
    spans,   \* the mastra_ai_spans table, in insertion order
    reply,   \* the last response of the traces routes
    accounts, \* the account table read by the credential lookup
    client   \* the chat page of the web client

chatVars == <<store, turns, last, nreq, clock, threads>>
toolVars == <<tool>>
traceVars == <<spans, reply>>

vars == <<chatVars, toolVars, traceVars, accounts, client>>

\* the null that getGoogleAccount returns: account?.accessToken || "" is ""
NoAccount == [userId |-> Empty, providerId |-> "", accessToken |-> Empty, createdAt |-> 0]

\* getGoogleAccount: accounts[0] || null, where the query has no ORDER BY and
\* returns the rows of the user for "google" in any order
getGoogleAccount(userId) ==
    LET rows == SelectSeq2(accounts, userId, "google")
    IN  IF rows = <<>> THEN {NoAccount} ELSE { rows[k] : k \in DOMAIN rows }

\* createdAt of a stored message that has none
Missing == -1

SeedStores ==
    LET
        SeedMessage(i, t) ==
            [id |-> i, thread |-> <<"A">>, resource |-> <<"u", "1">>, role |-> "user",
             content |-> <<"m", Digit[i]>>, createdAt |-> t]
    IN  LET
            \* messages found in the store at start-up: earlier messages of u1 in
            \* thread A, in any storage order, with or without createdAt
            SeedTimes == {Missing, 1, 2}
        IN  UNION { { [i \in 1..n |-> SeedMessage(i, ts[i])] : ts \in [1..n -> SeedTimes] }
                    : n \in 0..MaxSeed }

NoExchange ==
    [id |-> 0, route |-> "none", session |-> Empty, message |-> JsUndefined,
     threadId |-> JsUndefined, status |-> 0, ctype |-> "", error |-> "",
     messages |-> <<>>, stream |-> 0, handlerRan |-> FALSE, ctx |-> Empty,
     credLookup |-> FALSE, agentCalled |-> FALSE, memAccess |-> FALSE,
     param |-> Empty, title |-> JsUndefined, thread |-> Empty,
     threads |-> <<>>, success |-> FALSE]

----------------------------------------------------------------------------
(* Auth middleware *)

\* a middleware that lets every request through
UnauthenticatedNever(session) == FALSE

\* requireAuth: if (!session) return 401
Unauthenticated(session) == session = Empty

\* the exchange as the middleware leaves it: 401 without calling next()
Rejected401(x) ==
    [x EXCEPT !.status = 401, !.ctype = "application/json", !.error = "Unauthorized"]

\* a handler reached without a session dereferences undefined: TypeError, 500
Crashed500(x) ==
    [x EXCEPT !.status = 500, !.ctype = "text/plain", !.error = "Internal Server Error",
              !.handlerRan = TRUE]

----------------------------------------------------------------------------
(* POST /chat/stream *)

\* a validation that forgets the typeof test
InvalidMessageFalsyOnly(message) == ~Truthy(message)

\* if (!message || typeof message !== "string")
InvalidMessage(message) == ~Truthy(message) \/ message.type /= "string"

\* a default thread that is the same for every user
ResolveThreadIdShared(threadId, userId) ==
    IF Truthy(threadId) THEN threadId.val ELSE ThreadPrefix

\* threadId || `thread-${session.user.id}`
ResolveThreadId(threadId, userId) ==
    IF Truthy(threadId) THEN threadId.val ELSE ThreadPrefix \o userId

NextMessageId ==
    LET
        \* the memory gives a stored message an id that no message had before
        MaxOf(S) == IF S = {} THEN 0 ELSE CHOOSE x \in S : \A y \in S : y <= x
    IN  1 + MaxOf({ store[k].id : k \in DOMAIN store }
                  \cup { turns[i].userMsgId : i \in DOMAIN turns }
                  \cup { turns[i].asstMsgId : i \in DOMAIN turns })

\* the thread table: getThreadById, and the thread that agent.stream keeps
\* for (thread, resource), created under the resolved id when it is new
NoThread == [id |-> Empty, resourceId |-> Empty, title |-> Empty, updatedAt |-> 0]

ThreadIds == { threads[k].id : k \in DOMAIN threads }

getThreadById(threadId) ==
    IF threadId \in ThreadIds
    THEN threads[CHOOSE k \in DOMAIN threads : threads[k].id = threadId]
    ELSE NoThread

EnsureThread(threadId, resourceId) ==
    IF threadId \in ThreadIds THEN threads
    ELSE Append(threads, [id |-> threadId, resourceId |-> resourceId,
                          title |-> Empty, updatedAt |-> clock])

\* if (traceId) enqueue the traceId frame: done when the stream is constructed
StartFrames(traceId) ==
    LET
        TraceFrame == TraceEventLine \o DataPrefix \o JSONstringify(traceId) \o FrameEnd
    IN  IF traceId /= Empty THEN <<TraceFrame>> ELSE <<>>

\* a framer that puts the newest chunk first
EnqueueChunkFront(frames, chunk) == <<DataFrame(chunk)>> \o frames

\* controller.enqueue of one text chunk
EnqueueChunk(frames, chunk) == Append(frames, DataFrame(chunk))

\* a framer that ends the stream twice
EnqueueDoneTwice(frames) == Append(Append(frames, DoneFrame), DoneFrame)

\* controller.enqueue of the terminal frame
EnqueueDone(frames) == Append(frames, DoneFrame)

\* threadInput, produced, threw, userMsgId and asstMsgId record what was asked
\* and what happened; the code reads none of them. phase and toolResults are
\* the state of the agent loop behind agent.stream: generating or waiting for
\* a tool, and what the tools have fed back into the context of the model
NewTurn(userId, threadId, message, traceId, account) ==
    [req |-> nreq + 1, user |-> userId, threadInput |-> threadId,
     thread |-> ResolveThreadId(threadId, userId), resource |-> userId,
     message |-> message, token |-> account.accessToken,
     traceId |-> traceId, produced |-> <<>>, frames |-> StartFrames(traceId),
     state |-> "open", threw |-> FALSE, userMsgId |-> NextMessageId, asstMsgId |-> 0,
     phase |-> "generating", toolResults |-> <<>>]

StreamRequest(session, message, threadId, traceId) ==
    LET
        \* agent.stream(message, {memory: {thread, resource}, runtimeContext}):
        \* the user message is stored for (thread, resource) and a turn starts
        UserMessage(thread, resource, content) ==
            [id |-> NextMessageId, thread |-> thread, resource |-> resource, role |-> "user",
             content |-> content, createdAt |-> clock]
    IN  LET x == [NoExchange EXCEPT !.id = nreq + 1, !.route = "stream", !.session = session]
        IN
        /\ nreq' = nreq + 1
        /\ UNCHANGED <<clock, toolVars, traceVars, accounts, client>>
        /\ IF Unauthenticated(session)
           THEN /\ last' = Rejected401(x)
                /\ UNCHANGED <<store, turns, threads>>
           ELSE LET h == [x EXCEPT !.handlerRan = TRUE, !.ctx = session,
                                       !.message = message, !.threadId = threadId] IN
                IF InvalidMessage(message)
                THEN /\ last' = [h EXCEPT !.status = 400, !.ctype = "application/json",
                                          !.error = "Message is required"]
                     /\ UNCHANGED <<store, turns, threads>>
                ELSE IF h.ctx = Empty
                THEN /\ last' = Crashed500(h)
                     /\ UNCHANGED <<store, turns, threads>>
                ELSE LET thread == ResolveThreadId(threadId, h.ctx) IN
                     /\ threads' = EnsureThread(thread, h.ctx)
                     /\ store' = Append(store, UserMessage(thread, h.ctx, message.val))
                     /\ \E account \in getGoogleAccount(h.ctx) :
                            turns' = Append(turns, NewTurn(h.ctx, threadId, message.val,
                                                           traceId, account))
                     /\ last' = [h EXCEPT !.status = 200, !.ctype = "text/event-stream",
                                          !.stream = Len(turns) + 1, !.credLookup = TRUE,
                                          !.agentCalled = TRUE, !.memAccess = TRUE]

PostStreamFrom(sessions, messages, threadIds, tracing, maxRequests, maxTurns, maxOpen) ==
    LET
        TraceIdOf(n) == <<"a", Digit[n]>>
    IN  LET
            \* requests drawn from the given inputs; known: whether stream.traceId is set
            OpenTurns(ts) == { i \in DOMAIN ts : ts[i].state = "open" }
        IN  /\ nreq < maxRequests
            /\ \E session \in sessions, message \in messages,
                  threadId \in threadIds, known \in tracing :
                   StreamRequest(session, message, threadId,
                                 IF known THEN TraceIdOf(nreq + 1) ELSE Empty)
            /\ Len(turns') <= maxTurns
            /\ Cardinality(OpenTurns(turns')) <= maxOpen

----------------------------------------------------------------------------
(* The response stream of a turn: ReadableStream.start *)

RECURSIVE Concat(_)
Concat(chunks) ==
    IF chunks = <<>> THEN <<>> ELSE Head(chunks) \o Concat(Tail(chunks))

RECURSIVE TotalProduced(_)
TotalProduced(n) ==
    IF n = 0 THEN 0 ELSE Len(turns[n].produced) + TotalProduced(n - 1)

\* for await (const chunk of stream.textStream): the model yields a chunk
EmitChunk(i, chunk) ==
    /\ turns[i].state = "open"
    /\ turns' = [turns EXCEPT ![i].produced = Append(@, chunk),
                              ![i].frames = EnqueueChunk(@, chunk)]
    /\ UNCHANGED <<store, last, nreq, clock, threads, toolVars, traceVars, accounts, client>>

StreamComplete(i) ==
    LET
        \* the text stream ends: the assistant message is sealed, then [DONE] and close
        AssistantMessage(t) ==
            [id |-> NextMessageId, thread |-> t.thread, resource |-> t.resource,
             role |-> "assistant", content |-> Concat(t.produced), createdAt |-> clock]
    IN  /\ turns[i].state = "open"
        /\ store' = Append(store, AssistantMessage(turns[i]))
        /\ turns' = [turns EXCEPT ![i].frames = EnqueueDone(@),
                                  ![i].state = "closed",
                                  ![i].asstMsgId = NextMessageId]
        /\ UNCHANGED <<last, nreq, clock, threads, toolVars, traceVars, accounts, client>>

\* the text stream throws: catch, controller.error(error)
StreamThrow(i) ==
    /\ turns[i].state = "open"
    /\ turns' = [turns EXCEPT ![i].state = "errored", ![i].threw = TRUE]
    /\ UNCHANGED <<store, last, nreq, clock, threads, toolVars, traceVars, accounts, client>>

----------------------------------------------------------------------------
(* GET /chat/history *)

\* memory.query({threadId, resourceId}): the messages of the thread that
\* belong to the resource, in storage order
RECURSIVE SelectMessages(_, _, _)
SelectMessages(s, threadId, resourceId) ==
    IF s = <<>> THEN <<>>
    ELSE (IF Head(s).thread = threadId /\ Head(s).resource = resourceId
          THEN <<Head(s)>> ELSE <<>>) \o SelectMessages(Tail(s), threadId, resourceId)

\* a query that forgets the thread
RECURSIVE SelectByResource(_, _)
SelectByResource(s, resourceId) ==
    IF s = <<>> THEN <<>>
    ELSE (IF Head(s).resource = resourceId THEN <<Head(s)>> ELSE <<>>)
         \o SelectByResource(Tail(s), resourceId)

MemoryQueryAnyThread(threadId, resourceId) == SelectByResource(store, resourceId)

MemoryQuery(threadId, resourceId) == SelectMessages(store, threadId, resourceId)

\* new Date(m.createdAt || 0).getTime()
TimeOf(m) == IF m.createdAt = Missing THEN 0 ELSE m.createdAt

\* a comparator with its operands swapped
CompareReversed(a, b) == TimeOf(b) - TimeOf(a)

\* the comparator of the sort: time(a) - time(b)
Compare(a, b) == TimeOf(a) - TimeOf(b)

\* Array.prototype.sort is stable: x goes after every element that does
\* not compare greater than it
RECURSIVE InsertSorted(_, _)
InsertSorted(sorted, x) ==
    IF sorted = <<>> THEN <<x>>
    ELSE IF Compare(Head(sorted), x) <= 0
         THEN <<Head(sorted)>> \o InsertSorted(Tail(sorted), x)
         ELSE <<x>> \o sorted

RECURSIVE SortMessages(_)
SortMessages(ms) ==
    IF ms = <<>> THEN <<>>
    ELSE InsertSorted(SortMessages(SubSeq(ms, 1, Len(ms) - 1)), ms[Len(ms)])

\* a history that returns the newest message only
HistoryOfNewest(userId, threadId) ==
    LET all == SortMessages(MemoryQuery(ResolveThreadId(threadId, userId), userId))
    IN  IF all = <<>> THEN <<>> ELSE <<all[Len(all)]>>

\* the handler's result for a caller and a threadId query parameter
HistoryOf(userId, threadId) ==
    SortMessages(MemoryQuery(ResolveThreadId(threadId, userId), userId))

HistoryRequest(session, threadId) ==
    LET x == [NoExchange EXCEPT !.id = nreq + 1, !.route = "history",
                                !.session = session]
    IN
    /\ nreq' = nreq + 1
    /\ UNCHANGED <<store, turns, clock, threads, toolVars, traceVars, accounts, client>>
    /\ IF Unauthenticated(session)
       THEN last' = Rejected401(x)
       ELSE LET h == [x EXCEPT !.handlerRan = TRUE, !.ctx = session,
                                   !.threadId = threadId] IN
            IF h.ctx = Empty
            THEN last' = Crashed500(h)
            ELSE last' = [h EXCEPT !.status = 200, !.ctype = "application/json",
                                   !.messages = HistoryOf(h.ctx, threadId),
                                   !.memAccess = TRUE]

GetHistoryFrom(sessions, threadIds, maxRequests) ==
    /\ nreq < maxRequests
    /\ \E session \in sessions, threadId \in threadIds :
           HistoryRequest(session, threadId)

----------------------------------------------------------------------------
(* Thread management: GET, POST /chat/threads, DELETE /chat/threads/:id   *)

\* memory.createThread({resourceId, title: title || "New Chat"})
createThread(resourceId, title) ==
    LET
        \* the id that memory.createThread gives a new thread
        NewThreadId == <<"T", Digit[Len(threads) + 1]>>
    IN  LET
            NewChatTitle == <<"N", "e", "w", " ", "C", "h", "a", "t">>
        IN  [id |-> NewThreadId, resourceId |-> resourceId,
             title |-> IF Truthy(title) THEN title.val ELSE NewChatTitle,
             updatedAt |-> clock]

CreateThreadRequest(session, title) ==
    LET x == [NoExchange EXCEPT !.id = nreq + 1, !.route = "createThread",
                                !.session = session]
    IN
    /\ nreq' = nreq + 1
    /\ UNCHANGED <<store, turns, clock, toolVars, traceVars, accounts, client>>
    /\ IF Unauthenticated(session)
       THEN /\ last' = Rejected401(x)
            /\ UNCHANGED threads
       ELSE LET h == [x EXCEPT !.handlerRan = TRUE, !.ctx = session, !.title = title]
                thread == createThread(h.ctx, title)
            IN  /\ threads' = Append(threads, thread)
                /\ last' = [h EXCEPT !.status = 200, !.ctype = "application/json",
                                     !.thread = thread.id, !.memAccess = TRUE]

ThreadListings(resourceId) ==
    LET
        \* getThreadsByResourceId({resourceId, orderBy: "updatedAt", sortDirection:
        \* "DESC"}): the threads of the resource, latest update first; threads
        \* updated at the same time come in any order
        OwnedThreads ==
            { threads[k] : k \in { j \in DOMAIN threads : threads[j].resourceId = resourceId } }
    IN  LET owned == OwnedThreads
            n == Cardinality(owned)
        IN  { l \in [1..n -> owned] :
                /\ \A a, b \in 1..n : a /= b => l[a] /= l[b]
                /\ \A a, b \in 1..n : a < b => l[a].updatedAt >= l[b].updatedAt }

ThreadsRequest(session) ==
    LET x == [NoExchange EXCEPT !.id = nreq + 1, !.route = "threads",
                                !.session = session]
    IN
    /\ nreq' = nreq + 1
    /\ UNCHANGED <<store, turns, clock, threads, toolVars, traceVars, accounts, client>>
    /\ IF Unauthenticated(session)
       THEN last' = Rejected401(x)
       ELSE LET h == [x EXCEPT !.handlerRan = TRUE, !.ctx = session] IN
            \E listing \in ThreadListings(h.ctx) :
                last' = [h EXCEPT !.status = 200, !.ctype = "application/json",
                                  !.threads = listing, !.memAccess = TRUE]

\* a check of existence only
NotOwnedAbsentOnly(thread, userId) == thread = NoThread

\* if (!thread || thread.resourceId !== session.user.id)
NotOwned(thread, userId) == thread = NoThread \/ thread.resourceId /= userId

\* memory.query({threadId}): the messages of the thread, of any resource
RECURSIVE SelectThread(_, _)
SelectThread(s, threadId) ==
    IF s = <<>> THEN <<>>
    ELSE (IF Head(s).thread = threadId THEN <<Head(s)>> ELSE <<>>)
         \o SelectThread(Tail(s), threadId)

\* a deletion that takes the ids of every stored message
AllMessageIds(threadId) == { store[k].id : k \in DOMAIN store }

\* uiMessages.map((m) => m.id)
ThreadMessageIds(threadId) ==
    LET uiMessages == SelectThread(store, threadId)
    IN  { uiMessages[k].id : k \in DOMAIN uiMessages }

\* memory.deleteMessages(ids)
RECURSIVE deleteMessages(_, _)
deleteMessages(s, ids) ==
    IF s = <<>> THEN <<>>
    ELSE (IF Head(s).id \in ids THEN <<>> ELSE <<Head(s)>>)
         \o deleteMessages(Tail(s), ids)

DeleteThreadRequest(session, threadId) ==
    LET x == [NoExchange EXCEPT !.id = nreq + 1, !.route = "deleteThread",
                                !.session = session]
    IN
    /\ nreq' = nreq + 1
    /\ UNCHANGED <<turns, clock, threads, toolVars, traceVars, accounts, client>>
    /\ IF Unauthenticated(session)
       THEN /\ last' = Rejected401(x)
            /\ UNCHANGED store
       ELSE LET h == [x EXCEPT !.handlerRan = TRUE, !.ctx = session,
                                   !.param = threadId, !.memAccess = TRUE] IN
            IF NotOwned(getThreadById(threadId), h.ctx)
            THEN /\ last' = [h EXCEPT !.status = 404, !.ctype = "application/json",
                                      !.error = "Thread not found"]
                 /\ UNCHANGED store
            ELSE /\ store' = deleteMessages(store, ThreadMessageIds(threadId))
                 /\ last' = [h EXCEPT !.status = 200, !.ctype = "application/json",
                                      !.success = TRUE]

----------------------------------------------------------------------------
(* The Google tool adapters: googleContactsTool.execute and                *)
(* googleGmailTool.execute, with the upstream HTTP traffic                 *)

TokenNotAvailable ==
    <<"G", "o", "o", "g", "l", "e", " ", "a", "c", "c", "e", "s", "s", " ",
      "t", "o", "k", "e", "n", " ", "n", "o", "t", " ", "a", "v", "a", "i",
      "l", "a", "b", "l", "e">>
Unknown == <<"U", "n", "k", "n", "o", "w", "n">>
NoSubject == <<"N", "o", " ", "S", "u", "b", "j", "e", "c", "t">>
ErrorFetchingEmail ==
    <<"E", "r", "r", "o", "r", " ", "f", "e", "t", "c", "h", "i", "n", "g",
      " ", "e", "m", "a", "i", "l">>

\* context.maxResults ?? 10
DefaultMaxResults == 10

\* the runtime context handed to execute: absent, or a bag whose
\* googleAccessToken is unset, or set as the stream route sets it
\* (account?.accessToken || "")
NoContext == [context |-> FALSE, token |-> JsUndefined]
RouteContext(account) == [context |-> TRUE, token |-> JsString(account.accessToken)]

\* runtimeContext?.get("googleAccessToken")
AccessTokenOf(credential) ==
    IF credential.context THEN credential.token ELSE JsUndefined

\* a check for an unset token only
NoAccessTokenUnsetOnly(accessToken) == accessToken = JsUndefined

\* if (!accessToken)
NoAccessToken(accessToken) == ~Truthy(accessToken)

MaxResultsOf(input) == IF input.given THEN input.n ELSE DefaultMaxResults

\* a list in a response body: the property may be missing
NoList == [present |-> FALSE, items |-> <<>>]

ListsOf(S, maxLen) ==
    {NoList} \cup
    UNION { { [present |-> TRUE, items |-> l] : l \in [1..n -> S] } : n \in 0..maxLen }

\* data.connections || [] , listData.messages || []
ItemsOrEmpty(list) == IF list.present THEN list.items ELSE <<>>

NoDetail ==
    [subject |-> JsUndefined, from |-> JsUndefined,
     date |-> JsUndefined, snippet |-> JsUndefined]

\* an HTTP response of the upstream: status and, for a detail, its body
Statuses == {200, 401, 500}
IsOk(status) == status >= 200 /\ status < 300

NoResponse == [status |-> 0, detail |-> NoDetail]

NoToolCall ==
    [phase |-> "idle", adapter |-> "", credential |-> NoContext, maxResults |-> 0,
     calls |-> <<>>, listStatus |-> 0, upstream |-> NoList, items |-> <<>>,
     responses |-> <<>>, results |-> <<>>, order |-> <<>>,
     output |-> <<>>, error |-> Empty]

ListCall(adapter, accessToken, maxResults) ==
    [kind |-> "list", adapter |-> adapter, id |-> Empty,
     token |-> accessToken.val, maxResults |-> maxResults]

\* execute up to the list request: the token check, then fetch(list url)
ToolExecute(adapter, credential, input) ==
    LET accessToken == AccessTokenOf(credential)
        call == [NoToolCall EXCEPT !.adapter = adapter, !.credential = credential,
                                   !.maxResults = MaxResultsOf(input)]
    IN
    /\ tool.phase = "idle"
    /\ IF NoAccessToken(accessToken)
       THEN tool' = [call EXCEPT !.phase = "failed", !.error = TokenNotAvailable]
       ELSE tool' = [call EXCEPT !.phase = "listing",
                                 !.calls = <<ListCall(adapter, accessToken,
                                                      MaxResultsOf(input))>>]
    /\ UNCHANGED <<chatVars, traceVars, accounts, client>>

FailureMessage(prefix, status) ==
    LET
        \* `Failed to fetch ...: ${response.status} ${errorText}`
        StatusText(code) ==
            IF code = 401 THEN <<"4", "0", "1">>
            ELSE IF code = 500 THEN <<"5", "0", "0">>
            ELSE <<"2", "0", "0">>
    IN  prefix \o <<":", " ">> \o StatusText(status) \o <<" ">>

\* a contact that carries empty strings for what is missing
ContactOfBlank(person) ==
    [name |-> IF Truthy(person.displayName) THEN person.displayName ELSE JsString(Unknown),
     email |-> IF Truthy(person.email) THEN person.email ELSE JsString(Empty),
     phone |-> IF Truthy(person.phone) THEN person.phone ELSE JsString(Empty)]

\* the element built from one person
ContactOf(person) ==
    [name |-> IF Truthy(person.displayName) THEN person.displayName ELSE JsString(Unknown),
     email |-> person.email,
     phone |-> person.phone]

\* the contacts list responds: a non-2xx response fails the call, a 2xx
\* body is mapped entry by entry
ContactsListResponds(status, data) ==
    LET
        FailedToFetchContacts ==
            <<"F", "a", "i", "l", "e", "d", " ", "t", "o", " ", "f", "e", "t", "c",
              "h", " ", "c", "o", "n", "t", "a", "c", "t", "s">>
    IN  /\ tool.phase = "listing"
        /\ tool.adapter = "contacts"
        /\ IF ~IsOk(status)
           THEN tool' = [tool EXCEPT !.phase = "failed", !.listStatus = status,
                                     !.error = FailureMessage(FailedToFetchContacts, status)]
           ELSE LET connections == ItemsOrEmpty(data) IN
                tool' = [tool EXCEPT !.phase = "done", !.listStatus = status,
                                     !.upstream = data, !.items = connections,
                                     !.output = [k \in DOMAIN connections |->
                                                    ContactOf(connections[k])]]
        /\ UNCHANGED <<chatVars, traceVars, accounts, client>>

\* the message list responds: a non-2xx response fails the call; for a 2xx
\* body the detail request of each of the first maxResults messages is
\* issued, in list order, before any of them is answered
GmailListResponds(status, data) ==
    LET
        DetailCall(accessToken, id) ==
            [kind |-> "detail", adapter |-> "gmail", id |-> id,
             token |-> accessToken.val, maxResults |-> 0]
        \* Array.prototype.slice(0, end) for an integer end
        Slice(s, end) ==
            LET n == Len(s)
                e == IF end < 0 THEN (IF n + end < 0 THEN 0 ELSE n + end)
                     ELSE (IF end > n THEN n ELSE end)
            IN  SubSeq(s, 1, e)
        FailedToFetchEmails ==
            <<"F", "a", "i", "l", "e", "d", " ", "t", "o", " ", "f", "e", "t", "c",
              "h", " ", "e", "m", "a", "i", "l", "s">>
    IN  LET
            Pending == [id |-> Empty, subject |-> JsUndefined, from |-> JsUndefined,
                        date |-> JsUndefined, snippet |-> JsUndefined]
        IN  /\ tool.phase = "listing"
            /\ tool.adapter = "gmail"
            /\ IF ~IsOk(status)
               THEN tool' = [tool EXCEPT !.phase = "failed", !.listStatus = status,
                                         !.error = FailureMessage(FailedToFetchEmails, status)]
               ELSE LET messages == ItemsOrEmpty(data)
                        items == Slice(messages, tool.maxResults)
                        token == AccessTokenOf(tool.credential)
                    IN  tool' = [tool EXCEPT
                            !.phase = IF items = <<>> THEN "done" ELSE "details",
                            !.listStatus = status, !.upstream = data, !.items = items,
                            !.calls = @ \o [k \in DOMAIN items |-> DetailCall(token, items[k])],
                            !.responses = [k \in DOMAIN items |-> NoResponse],
                            !.results = [k \in DOMAIN items |-> Pending]]
            /\ UNCHANGED <<chatVars, traceVars, accounts, client>>

\* a placeholder that does not say which message failed
PlaceholderAnonymous(id) ==
    [id |-> Empty, subject |-> JsString(ErrorFetchingEmail), from |-> JsString(Unknown),
     date |-> JsString(Empty), snippet |-> JsString(Empty)]

\* if (!detailResponse.ok) return {id: msg.id, subject: "Error fetching email", ...}
Placeholder(id) ==
    [id |-> id, subject |-> JsString(ErrorFetchingEmail), from |-> JsString(Unknown),
     date |-> JsString(Empty), snippet |-> JsString(Empty)]

EmailOf(id, detail) ==
    LET
        \* value || fallback
        OrElse(value, fallback) == IF Truthy(value) THEN value ELSE JsString(fallback)
    IN  [id |-> id,
         subject |-> OrElse(detail.subject, NoSubject),
         from |-> OrElse(detail.from, Unknown),
         date |-> OrElse(detail.date, Empty),
         snippet |-> OrElse(detail.snippet, Empty)]

\* results that are collected in the order in which they arrive
CollectByArrival(results, order) == [k \in DOMAIN order |-> results[order[k]]]

\* Promise.all: the results in the order of the requests
CollectAll(results, order) == results

\* the detail request of message i is answered; when it is the last one,
\* Promise.all resolves and execute returns {emails}
DetailResponds(i, status, detail) ==
    /\ tool.phase = "details"
    /\ i \in DOMAIN tool.items
    /\ tool.responses[i] = NoResponse
    /\ LET result == IF IsOk(status) THEN EmailOf(tool.items[i], detail)
                     ELSE Placeholder(tool.items[i])
           results == [tool.results EXCEPT ![i] = result]
           order == Append(tool.order, i)
           all == Len(order) = Len(tool.items)
       IN  tool' = [tool EXCEPT
               !.responses[i] = [status |-> status, detail |-> detail],
               !.results = results,
               !.order = order,
               !.phase = IF all THEN "done" ELSE "details",
               !.output = IF all THEN CollectAll(results, order) ELSE <<>>]
    /\ UNCHANGED <<chatVars, traceVars, accounts, client>>

----------------------------------------------------------------------------
(* The agent loop of a turn, between the model and the tools               *)

\* the model asks for a tool: the adapter is executed with the runtime
\* context that the stream route has set for the turn
ModelRequestsTool(i, adapter, input) ==
    /\ turns[i].state = "open"
    /\ turns[i].phase = "generating"
    /\ Len(turns[i].toolResults) < MaxToolRounds
    /\ tool.phase = "idle"
    /\ LET accessToken == AccessTokenOf(RouteContext([NoAccount EXCEPT
                                !.accessToken = turns[i].token]))
           call == [NoToolCall EXCEPT !.adapter = adapter,
                                      !.credential = RouteContext([NoAccount EXCEPT
                                            !.accessToken = turns[i].token]),
                                      !.maxResults = MaxResultsOf(input)]
       IN  tool' = IF NoAccessToken(accessToken)
                   THEN [call EXCEPT !.phase = "failed", !.error = TokenNotAvailable]
                   ELSE [call EXCEPT !.phase = "listing",
                                     !.calls = <<ListCall(adapter, accessToken,
                                                          MaxResultsOf(input))>>]
    /\ turns' = [turns EXCEPT ![i].phase = "tool"]
    /\ UNCHANGED <<store, last, nreq, clock, threads, traceVars, accounts, client>>

\* a loop that gives up the turn when the tool has thrown
ToolFailureAborts(i) ==
    /\ turns[i].state = "open"
    /\ turns[i].phase = "tool"
    /\ tool.phase \in {"done", "failed"}
    /\ turns' = IF tool.phase = "failed"
                THEN [turns EXCEPT ![i].state = "errored", ![i].threw = TRUE]
                ELSE [turns EXCEPT ![i].phase = "generating",
                         ![i].toolResults = Append(@, [adapter |-> tool.adapter,
                                                       failed |-> FALSE,
                                                       error |-> tool.error])]
    /\ tool' = NoToolCall
    /\ UNCHANGED <<store, last, nreq, clock, threads, traceVars, accounts, client>>

\* the adapter has returned or thrown: its output or its error goes back
\* into the context of the model, which generates again
ToolResultFedBack(i) ==
    /\ turns[i].state = "open"
    /\ turns[i].phase = "tool"
    /\ tool.phase \in {"done", "failed"}
    /\ turns' = [turns EXCEPT ![i].phase = "generating",
                    ![i].toolResults = Append(@, [adapter |-> tool.adapter,
                                                  failed |-> tool.phase = "failed",
                                                  error |-> tool.error])]
    /\ tool' = NoToolCall
    /\ UNCHANGED <<store, last, nreq, clock, threads, traceVars, accounts, client>>

----------------------------------------------------------------------------
(* The span table and the traces routes                                    *)

\* a null column: parentSpanId of a root, endedAt of a span in progress
NullId == Empty
NullTime == 0

TraceIds == {<<"a", "1">>, <<"a", "2">>}

\* the thread that the spans of a trace name in their metadata
ThreadOfTrace(traceId) == IF traceId = <<"a", "1">> THEN <<"A">> ELSE <<"B">>

\* a row of mastra_ai_spans as the tracer inserts it when the span starts
SpanRow(traceId, parentSpanId, startedAt) ==
    LET
        NewSpanId == <<"s", Digit[Len(spans) + 1]>>
    IN  [spanId |-> NewSpanId, traceId |-> traceId, parentSpanId |-> parentSpanId,
         startedAt |-> startedAt, endedAt |-> NullTime,
         metadata |-> [threadId |-> ThreadOfTrace(traceId), of |-> NewSpanId]]

SpanRecorded(traceId, parentSpanId, startedAt) ==
    /\ Len(spans) < MaxSpans
    /\ spans' = Append(spans, SpanRow(traceId, parentSpanId, startedAt))
    /\ UNCHANGED <<chatVars, toolVars, reply, accounts, client>>

\* the span ends: the tracer sets endedAt, once
SpanSealed(i, endedAt) ==
    /\ spans[i].endedAt = NullTime
    /\ endedAt >= spans[i].startedAt
    /\ spans' = [spans EXCEPT ![i].endedAt = endedAt]
    /\ UNCHANGED <<chatVars, toolVars, reply, accounts, client>>

NoReply ==
    LET
        NoMetadata == [threadId |-> Empty, of |-> Empty]
    IN  [id |-> 0, route |-> "none", session |-> Empty, handlerRan |-> FALSE,
         status |-> 0, error |-> "", traceId |-> Empty, groupBy |-> "",
         limit |-> 0, page |-> 0, spans |-> <<>>, startTime |-> 0, endTime |-> 0,
         metadata |-> NoMetadata, traces |-> <<>>, total |-> 0, conversations |-> <<>>,
         threadId |-> Empty]

\* the rows a query selects, in every order that ORDER BY "startedAt" allows
\* (rows with equal startedAt come in any order)
Rows == { spans[k] : k \in DOMAIN spans }

\* direction is the keyword of ORDER BY "startedAt" ASC | DESC
OrderedBy(rows, direction) ==
    LET n == Cardinality(rows)
        InOrder(r1, r2) == IF direction = "ASC" THEN r1.startedAt <= r2.startedAt
                           ELSE r1.startedAt >= r2.startedAt
    IN  { l \in [1..n -> rows] :
            /\ \A a, b \in 1..n : a /= b => l[a] /= l[b]
            /\ \A a, b \in 1..n : a < b => InOrder(l[a], l[b]) }

\* GET /traces/:traceId

\* a root that is always the first span
FindRootFirst(rows) == rows[1]

\* spans.find((s) => !s.parentSpanId) || spans[0]
RECURSIVE FindRootFrom(_, _)
FindRootFrom(rows, k) ==
    IF k > Len(rows) THEN rows[1]
    ELSE IF rows[k].parentSpanId = NullId THEN rows[k]
    ELSE FindRootFrom(rows, k + 1)

FindRoot(rows) == FindRootFrom(rows, 1)

TraceDetailRequest(session, traceId) ==
    LET
        SpanView(row) ==
            [id |-> row.spanId, traceId |-> row.traceId, startTime |-> row.startedAt,
             endTime |-> row.endedAt, metadata |-> row.metadata,
             parentSpanId |-> row.parentSpanId, isRootSpan |-> row.parentSpanId = NullId]
    IN  LET x == [NoReply EXCEPT !.id = reply.id + 1, !.route = "trace", !.session = session]
        IN
        /\ UNCHANGED <<chatVars, toolVars, spans, accounts, client>>
        /\ IF Unauthenticated(session)
           THEN reply' = [x EXCEPT !.status = 401, !.error = "Unauthorized"]
           ELSE LET h == [x EXCEPT !.handlerRan = TRUE, !.traceId = traceId] IN
                \E rows \in OrderedBy({ r \in Rows : r.traceId = traceId }, "ASC") :
                    IF Len(rows) = 0
                    THEN reply' = [h EXCEPT !.status = 404, !.error = "Trace not found"]
                    ELSE LET rootSpan == FindRoot(rows) IN
                         reply' = [h EXCEPT !.status = 200,
                                            !.spans = [k \in DOMAIN rows |-> SpanView(rows[k])],
                                            !.startTime = rootSpan.startedAt,
                                            !.endTime = rows[Len(rows)].endedAt,
                                            !.metadata = rootSpan.metadata]

\* GET /traces

ConversationWord == <<"c", "o", "n", "v", "e", "r", "s", "a", "t", "i", "o", "n">>

\* parseInt(c.req.query("limit") || "50"), parseInt(c.req.query("page") || "0")
DefaultLimit == 50
DefaultPage == 0
NotGiven == [given |-> FALSE, n |-> 0]
Given(n) == [given |-> TRUE, n |-> n]

\* the loop over the spans of the page: tracesMap, in insertion order
RECURSIVE GroupByTrace(_, _)
GroupByTrace(rows, acc) ==
    LET
        PositionOfTrace(map, traceId) ==
            IF \E k \in DOMAIN map : map[k].traceId = traceId
            THEN CHOOSE k \in DOMAIN map : map[k].traceId = traceId
            ELSE 0
        \* if (span.endedAt && (!trace.endTime || new Date(span.endedAt) > new Date(trace.endTime)))
        LaterEnd(endTime, endedAt) ==
            IF endedAt /= NullTime /\ (endTime = NullTime \/ endedAt > endTime)
            THEN endedAt ELSE endTime
    IN  IF rows = <<>> THEN acc
        ELSE LET span == Head(rows)
                 known == PositionOfTrace(acc, span.traceId)
                 acc1 == IF known = 0
                         THEN Append(acc, [traceId |-> span.traceId,
                                           startTime |-> span.startedAt,
                                           endTime |-> span.endedAt,
                                           spans |-> <<>>,
                                           metadata |-> span.metadata])
                         ELSE acc
                 k == PositionOfTrace(acc1, span.traceId)
             IN  GroupByTrace(Tail(rows),
                     [acc1 EXCEPT ![k].spans = Append(@, span.spanId),
                                  ![k].endTime = LaterEnd(@, span.endedAt)])

\* a query that forgets AND "parentSpanId" IS NULL
RootRowsOfAnyParent(threadId) ==
    { [traceId |-> r.traceId, startedAt |-> r.startedAt, endedAt |-> r.endedAt,
       metadata |-> r.metadata] : r \in { q \in Rows : q.metadata.threadId = threadId } }

\* SELECT DISTINCT "traceId", "startedAt", "endedAt", metadata, input, output
\* ... WHERE metadata->>'threadId' = $1 AND "parentSpanId" IS NULL
RootRowsOf(threadId) ==
    { [traceId |-> r.traceId, startedAt |-> r.startedAt, endedAt |-> r.endedAt,
       metadata |-> r.metadata] :
        r \in { q \in Rows : q.metadata.threadId = threadId /\ q.parentSpanId = NullId } }

ConversationOf(thread, rows) ==
    LET
        \* the summary of the root spans of one thread, latest first
        TraceSummary(row) ==
            [traceId |-> row.traceId, startTime |-> row.startedAt, endTime |-> row.endedAt]
    IN  LET
            UntitledChat == <<"U", "n", "t", "i", "t", "l", "e", "d", " ", "C", "h", "a", "t">>
        IN  [threadId |-> thread.id,
             title |-> IF thread.title /= Empty THEN thread.title ELSE UntitledChat,
             traceCount |-> Len(rows),
             traces |-> [k \in DOMAIN rows |-> TraceSummary(rows[k])]]

\* for each listed thread, its root spans in an order the query allows
RootOrders(listing) ==
    { f \in [DOMAIN listing ->
                UNION { OrderedBy(RootRowsOf(listing[j].id), "DESC") :
                            j \in DOMAIN listing }] :
        \A k \in DOMAIN listing : f[k] \in OrderedBy(RootRowsOf(listing[k].id), "DESC") }

ConversationListings(userId) ==
    UNION { { [k \in DOMAIN listing |-> ConversationOf(listing[k], pick[k])] :
                pick \in RootOrders(listing) }
            : listing \in ThreadListings(userId) }

\* GET /traces/conversation/:threadId: the root spans of the thread that the
\* parameter names, earliest first
ConversationTracesRequest(session, threadId) ==
    LET x == [NoReply EXCEPT !.id = reply.id + 1, !.route = "thread", !.session = session]
    IN
    /\ UNCHANGED <<chatVars, toolVars, spans, accounts, client>>
    /\ IF Unauthenticated(session)
       THEN reply' = [x EXCEPT !.status = 401, !.error = "Unauthorized"]
       ELSE \E rows \in OrderedBy(RootRowsOf(threadId), "ASC") :
                reply' = [x EXCEPT !.handlerRan = TRUE, !.status = 200,
                                   !.threadId = threadId,
                                   !.traces = [k \in DOMAIN rows |->
                                        [traceId |-> rows[k].traceId,
                                         startTime |-> rows[k].startedAt,
                                         endTime |-> rows[k].endedAt,
                                         metadata |-> rows[k].metadata]]]

ListTracesRequest(session, groupByInput, limitInput, pageInput) ==
    LET
        \* SELECT COUNT(DISTINCT "traceId")
        CountTraces == Cardinality({ spans[k].traceId : k \in DOMAIN spans })
        PageOf(input) == IF input.given THEN input.n ELSE DefaultPage
        LimitOf(input) == IF input.given THEN input.n ELSE DefaultLimit
        GroupByOf(input) == IF Truthy(input) THEN input.val ELSE ConversationWord
        \* LIMIT $1 OFFSET $2
        LimitOffset(rows, limit, offset) ==
            SubSeq(rows, offset + 1, IF offset + limit > Len(rows) THEN Len(rows) ELSE offset + limit)
    IN  LET x == [NoReply EXCEPT !.id = reply.id + 1, !.route = "list", !.session = session]
        IN
        /\ UNCHANGED <<chatVars, toolVars, spans, accounts, client>>
        /\ IF Unauthenticated(session)
           THEN reply' = [x EXCEPT !.status = 401, !.error = "Unauthorized"]
           ELSE LET groupBy == GroupByOf(groupByInput)
                    h == [x EXCEPT !.handlerRan = TRUE,
                                   !.groupBy = IF groupBy = ConversationWord
                                               THEN "conversation" ELSE "trace"]
                IN
                IF groupBy = ConversationWord
                THEN \E conversations \in ConversationListings(session) :
                        reply' = [h EXCEPT !.status = 200, !.conversations = conversations]
                ELSE LET limit == LimitOf(limitInput)
                         page == PageOf(pageInput)
                         offset == page * limit
                     IN  \E rows \in OrderedBy(Rows, "DESC") :
                            reply' = [h EXCEPT
                                !.status = 200, !.limit = limit, !.page = page,
                                !.traces = GroupByTrace(LimitOffset(rows, limit, offset), <<>>),
                                !.total = CountTraces]

----------------------------------------------------------------------------
(* The chat page of the web client: the message input, handleSendMessage   *)
(* and the effect that shows the loaded history. client.calls holds the    *)
(* calls of handleSendMessage with the place each has reached; submits,    *)
(* created and loads count the submits of the form, the threads that POST  *)
(* /chat/threads has created and the history results.                      *)

\* a shown message; its id is drawn by crypto.randomUUID(), here the call
\* and the part of the call that made it
Message(call, part, role, content) ==
    [id |-> [call |-> call, part |-> part], role |-> role, content |-> content]

FallbackMessage(call) ==
    Message(call, "fallback", "assistant",
            <<"S", "o", "r", "r", "y", ",", " ", "s", "o", "m", "e", "t", "h", "i", "n", "g",
              " ", "w", "e", "n", "t", " ", "w", "r", "o", "n", "g", ".">>)

\* if (isStreaming) return; isSendingRef.current = true; without a thread the
\* call awaits POST /chat/threads, with one it shows the user message, sets
\* isStreaming and awaits POST /chat/stream
handleSendMessage(content) ==
    LET c == Len(client.calls) + 1
        call == [pc |-> "creating", content |-> content, threadId |-> Empty,
                 assistantContent |-> <<>>, wire |-> <<>>, chunks |-> <<>>,
                 reads |-> 0, outcome |-> ""]
    IN  IF client.isStreaming THEN client
        ELSE IF client.currentThreadId = Empty
        THEN [client EXCEPT !.isSendingRef = TRUE, !.calls = Append(@, call)]
        ELSE [client EXCEPT
                !.isSendingRef = TRUE,
                !.calls = Append(@, [call EXCEPT !.pc = "posting",
                                                 !.threadId = client.currentThreadId]),
                !.messages = Append(@, Message(c, "user", "user", content)),
                !.isStreaming = TRUE]

\* the form of the message input: if (trimmed && !disabled) onSend(trimmed),
\* with disabled = isStreaming
handleSubmit(input) ==
    LET RECURSIVE TrimStart(_)
        TrimStart(t) == IF t /= <<>> /\ Head(t) = " " THEN TrimStart(Tail(t)) ELSE t
        RECURSIVE TrimEnd(_)
        TrimEnd(t) == IF t /= <<>> /\ t[Len(t)] = " "
                      THEN TrimEnd(SubSeq(t, 1, Len(t) - 1)) ELSE t
        trimmed == TrimEnd(TrimStart(input))
        seen == [client EXCEPT !.submits = @ + 1]
    IN  /\ client' = IF trimmed /= Empty /\ ~client.isStreaming
                     THEN [handleSendMessage(trimmed) EXCEPT !.submits = @ + 1]
                     ELSE seen
        /\ UNCHANGED <<chatVars, toolVars, traceVars, accounts>>

\* POST /chat/threads settles: the fetch throws, the response is not ok, or
\* the thread is created and the call goes on to the stream request
ThreadRequestSettles(c, outcome) ==
    /\ client.calls[c].pc = "creating"
    /\ client' =
         CASE outcome = "throws" ->
                [client EXCEPT !.calls[c].pc = "threw", !.calls[c].outcome = "threadThrew"]
           [] outcome = "notOk" ->
                [client EXCEPT !.isSendingRef = FALSE,
                               !.calls[c].pc = "returned",
                               !.calls[c].outcome = "threadRejected"]
           [] OTHER ->
                LET threadId == <<"T", Digit[client.created + 1]>>
                IN  [client EXCEPT
                        !.created = @ + 1,
                        !.currentThreadId = threadId,
                        !.calls[c].threadId = threadId,
                        !.calls[c].pc = "posting",
                        !.messages = Append(@, Message(c, "user", "user",
                                                       client.calls[c].content)),
                        !.isStreaming = TRUE]
    /\ UNCHANGED <<chatVars, toolVars, traceVars, accounts>>

\* catch: the fallback message is appended; finally: both flags are cleared
TurnFailed(c) ==
    [client EXCEPT !.messages = Append(@, FallbackMessage(c)),
                   !.isStreaming = FALSE, !.isSendingRef = FALSE,
                   !.calls[c].pc = "returned", !.calls[c].outcome = "failed"]

\* the bytes of the response body: the frames that the stream route enqueues
\* for the trace id and the text chunks, and the DONE frame
RECURSIVE WireOf(_, _)
WireOf(frames, chunks) ==
    IF chunks = <<>> THEN Concat(EnqueueDone(frames))
    ELSE WireOf(EnqueueChunk(frames, Head(chunks)), Tail(chunks))

\* POST /chat/stream settles: the fetch throws or the response is not ok
\* (catch), or the response is ok and the call shows an empty assistant
\* message and reads the body
StreamRequestSettles(c, outcome, traceId, chunks) ==
    /\ client.calls[c].pc = "posting"
    /\ client' =
         IF outcome \in {"throws", "notOk"} THEN TurnFailed(c)
         ELSE [client EXCEPT
                 !.messages = Append(@, Message(c, "assistant", "assistant", <<>>)),
                 !.calls[c].pc = "reading",
                 !.calls[c].chunks = chunks,
                 !.calls[c].wire = WireOf(StartFrames(traceId), chunks)]
    /\ UNCHANGED <<chatVars, toolVars, traceVars, accounts>>

\* chunk.split("\n"): the pieces between the line feeds
SplitLines(bytes) ==
    LET feeds == { k \in DOMAIN bytes : bytes[k] = "\n" }
        \* the j-th line feed; 0 before the first, past the end after the last
        feed(j) == IF j = 0 THEN 0
                   ELSE IF j > Cardinality(feeds) THEN Len(bytes) + 1
                   ELSE CHOOSE k \in feeds : Cardinality({ m \in feeds : m < k }) = j - 1
    IN  [j \in 1..(Cardinality(feeds) + 1) |-> SubSeq(bytes, feed(j - 1) + 1, feed(j) - 1)]

\* /^[a-f0-9]{32}$/i
TraceIdLength == 32

LooksLikeTraceId(text) ==
    /\ Len(text) = TraceIdLength
    /\ \A k \in DOMAIN text :
          text[k] \in {"0", "1", "2", "3", "4", "5", "6", "7", "8", "9",
                       "a", "b", "c", "d", "e", "f", "A", "B", "C", "D", "E", "F"}

\* JSON.parse(data) returns a string and does not throw: data is a string
\* literal of JSON
ParsesAsString(data) ==
    LET RECURSIVE WellEscaped(_)
        WellEscaped(t) ==
            IF t = <<>> THEN TRUE
            ELSE IF Head(t) = "\\" THEN Len(t) >= 2 /\ t[2] \in {"\"", "\\", "n"}
                                        /\ WellEscaped(Tail(Tail(t)))
            ELSE Head(t) \notin {"\"", "\n"} /\ WellEscaped(Tail(t))
    IN  /\ Len(data) >= 2
        /\ data[1] = "\""
        /\ data[Len(data)] = "\""
        /\ WellEscaped(SubSeq(data, 2, Len(data) - 1))

\* the body of the loop over the lines of one read
RECURSIVE ReadLines(_, _)
ReadLines(assistantContent, lines) ==
    IF lines = <<>> THEN assistantContent
    ELSE LET line == Head(lines)
             data == SubSeq(line, Len(DataPrefix) + 1, Len(line))
             blank == \A k \in DOMAIN line : line[k] \in {" ", "\n"}
             text == JSONparse(data)
         IN  ReadLines(
                 IF StartsWith(line, <<"e", "v", "e", "n", "t", ":">>) \/ blank
                 THEN assistantContent
                 ELSE IF ~StartsWith(line, DataPrefix) THEN assistantContent
                 ELSE IF data = <<"[", "D", "O", "N", "E", "]">> THEN assistantContent
                 ELSE IF ~ParsesAsString(data) THEN assistantContent
                 ELSE IF LooksLikeTraceId(text) THEN assistantContent
                 ELSE assistantContent \o text,
                 Tail(lines))

\* reader.read() resolves with the next n bytes of the body: the lines of
\* the read are handled and the assistant message shows the text so far
ReadDelivers(c, n) ==
    LET call == client.calls[c]
        content == ReadLines(call.assistantContent, SplitLines(SubSeq(call.wire, 1, n)))
    IN  /\ call.pc = "reading"
        /\ n \in 1..Len(call.wire)
        /\ client' = [client EXCEPT
                        !.calls[c].assistantContent = content,
                        !.calls[c].wire = SubSeq(call.wire, n + 1, Len(call.wire)),
                        !.calls[c].reads = @ + 1,
                        !.messages =
                            IF content = call.assistantContent THEN @
                            ELSE [k \in DOMAIN @ |->
                                    IF @[k].id = [call |-> c, part |-> "assistant"]
                                    THEN [@[k] EXCEPT !.content = content] ELSE @[k]]]
        /\ UNCHANGED <<chatVars, toolVars, traceVars, accounts>>

\* reader.read() resolves with done after the last byte: finally
ReadDone(c) ==
    /\ client.calls[c].pc = "reading"
    /\ client.calls[c].wire = <<>>
    /\ client' = [client EXCEPT !.isStreaming = FALSE, !.isSendingRef = FALSE,
                                !.calls[c].pc = "returned",
                                !.calls[c].outcome = "completed"]
    /\ UNCHANGED <<chatVars, toolVars, traceVars, accounts>>

\* reader.read() rejects: catch and finally
ReadThrows(c) ==
    /\ client.calls[c].pc = "reading"
    /\ client' = TurnFailed(c)
    /\ UNCHANGED <<chatVars, toolVars, traceVars, accounts>>

\* a history result arrives for the current thread:
\* if (historyData?.messages && !isSendingRef.current) setMessages(...)
HistoryArrives(messages) ==
    /\ client.currentThreadId /= Empty
    /\ client' = [client EXCEPT !.loads = @ + 1,
                                !.messages = IF ~client.isSendingRef THEN messages ELSE @]
    /\ UNCHANGED <<chatVars, toolVars, traceVars, accounts>>

----------------------------------------------------------------------------
(* Time passes *)

Tick ==
    /\ clock < MaxClock
    /\ clock' = clock + 1
    /\ UNCHANGED <<store, turns, last, nreq, threads, toolVars, traceVars, accounts, client>>

----------------------------------------------------------------------------

ModelYieldsFrom(chunks, maxChunks) ==
    /\ TotalProduced(Len(turns)) < maxChunks
    /\ \E i \in DOMAIN turns, chunk \in chunks : EmitChunk(i, chunk)

ModelYields ==
    LET
        \* what the model capability may yield as one text chunk
        Chunks == { <<"H", "i">>, <<"\"", "\n", "\\">> }
    IN  ModelYieldsFrom(Chunks, MaxChunks)
ModelYieldsPlain == ModelYieldsFrom({<<"H", "i">>}, MaxPlainChunks)
ModelCompletes == \E i \in DOMAIN turns : StreamComplete(i)
ModelThrows == \E i \in DOMAIN turns : StreamThrow(i)

(* The API with tracing enabled (the configured observability), every      *)
(* request input, both routes, a model that yields plain text.             *)
PostStream ==
    PostStreamFrom(SessionResults, {JsString(<<"h", "i">>)}, ThreadIdInputs, {TRUE},
                   MaxRequests, MaxTurns, MaxOpen)
GetHistory ==
    LET
        ThreadIdQueries == ThreadIdInputs \cup { JsString(Empty) }
    IN  GetHistoryFrom(SessionResults, ThreadIdQueries, MaxRequests)

\* the chat page before it is opened
NoClient ==
    [isStreaming |-> FALSE, isSendingRef |-> FALSE, currentThreadId |-> Empty,
     messages |-> <<>>, calls |-> <<>>, submits |-> 0, created |-> 0, loads |-> 0]

\* no tool call yet, no span recorded, no trace served, the account table
\* as given, no chat page open
Untouched ==
    /\ tool = NoToolCall
    /\ spans = <<>>
    /\ reply = NoReply
    /\ accounts = AccountTable
    /\ client = NoClient

Init ==
    /\ threads = <<>>
    /\ store = <<>>
    /\ turns = <<>>
    /\ last = NoExchange
    /\ nreq = 0
    /\ clock = 1
    /\ Untouched

Next ==
    \/ PostStream
    \/ ModelYieldsPlain
    \/ ModelCompletes
    \/ GetHistory

Spec == Init /\ [][Next]_vars

(* The streaming pipeline alone: turns on the default thread, with and     *)
(* without a known trace id.                                               *)
PostStreamDefault ==
    LET
        JsNumber(digits) == [type |-> "number", val |-> digits]
    IN  LET
            MessageInputs ==
                { JsUndefined, JsString(Empty), JsNumber(<<"5">>), JsString(<<"h", "i">>) }
        IN  PostStreamFrom(SessionResults, MessageInputs, {JsUndefined}, BOOLEAN,
                           FramingRequests, FramingTurns, FramingOpen)

NextFraming ==
    \/ PostStreamDefault
    \/ ModelYields
    \/ ModelCompletes
    \/ ModelThrows

SpecFraming == Init /\ [][NextFraming]_vars

(* The history of one user over a store that already holds messages of     *)
(* thread A in any storage order.                                          *)
SeedUser == {<<"u", "1">>}

PostStreamSeeded ==
    PostStreamFrom(SeedUser, {JsString(<<"h", "i">>)}, {JsString(<<"A">>)}, {TRUE},
                   SeededRequests, SeededTurns, SeededOpen)
GetHistorySeeded ==
    LET
        SeedThreads == {JsUndefined, JsString(<<"A">>)}
    IN  GetHistoryFrom(SeedUser, SeedThreads, SeededRequests)

\* the seeded messages are those of a thread A that u1 owns
SeededThread ==
    [id |-> <<"A">>, resourceId |-> <<"u", "1">>, title |-> Empty, updatedAt |-> 0]

InitSeeded ==
    /\ threads = <<SeededThread>>
    /\ store \in SeedStores
    /\ turns = <<>>
    /\ last = NoExchange
    /\ nreq = 0
    /\ clock = 1
    /\ Untouched

NextSeeded ==
    \/ PostStreamSeeded
    \/ ModelCompletes
    \/ GetHistorySeeded
    \/ Tick

SpecSeeded == InitSeeded /\ [][NextSeeded]_vars

(* Thread management next to the chat: threads created explicitly and by   *)
(* a first message, deleted by their owner or by somebody else.            *)
\* u1 creates threads and chats; u1 and u2 list and delete
ThreadOwners == {<<"u", "1">>}
CreatedThread == <<"T", "1">>

PostThreads ==
    LET
        TitleInputs == {JsUndefined, JsString(<<"h", "i">>)}
    IN  /\ nreq < ThreadsRequests
        /\ \E session \in ThreadOwners, title \in TitleInputs :
               CreateThreadRequest(session, title)

GetThreads ==
    /\ nreq < ThreadsRequests
    /\ \E session \in Users : ThreadsRequest(session)

DeleteThread ==
    LET
        ThreadParams == {CreatedThread, ThreadPrefix \o <<"u", "1">>, <<"X">>}
    IN  /\ nreq < ThreadsRequests
        /\ \E session \in Users, threadId \in ThreadParams :
               DeleteThreadRequest(session, threadId)

PostStreamThreads ==
    LET
        ThreadsStreamIds == {JsUndefined, JsString(CreatedThread)}
    IN  PostStreamFrom(ThreadOwners, {JsString(<<"h", "i">>)}, ThreadsStreamIds, {TRUE},
                       ThreadsRequests, ThreadsTurns, ThreadsOpen)

NextThreads ==
    \/ PostThreads
    \/ GetThreads
    \/ DeleteThread
    \/ PostStreamThreads
    \/ ModelCompletes

SpecThreads == Init /\ [][NextThreads]_vars

(* One call of a tool adapter, from execute to its result, against an      *)
(* upstream that answers the list and each detail request in any order.    *)

ToolIsCalled ==
    LET
        Adapters == {"contacts", "gmail"}
        \* context.maxResults: not given, or a number
        MaxResultsInputs ==
            {[given |-> FALSE, n |-> 0]} \cup { [given |-> TRUE, n |-> k] : k \in 1..MaxListed }
        Credentials ==
            LET
                TokenUnset == [context |-> TRUE, token |-> JsUndefined]
            IN  {NoContext, TokenUnset} \cup { RouteContext(a) : a \in UNION { getGoogleAccount(u) : u \in Users } }
    IN  \E adapter \in Adapters, credential \in Credentials, input \in MaxResultsInputs :
            ToolExecute(adapter, credential, input)

ContactsListArrives ==
    LET
        ConnectionLists ==
            LET
                \* upstream people: what person.names?.[0]?.displayName,
                \* person.emailAddresses?.[0]?.value and person.phoneNumbers?.[0]?.value
                \* evaluate to (undefined when the list or the field is missing)
                People ==
                    [displayName : {JsUndefined, JsString(<<"A", "l">>)},
                     email : {JsUndefined, JsString(<<"e">>)},
                     phone : {JsUndefined, JsString(<<"p">>)}]
            IN  ListsOf(People, MaxConnections)
    IN  \E status \in Statuses, data \in ConnectionLists : ContactsListResponds(status, data)

GmailListArrives ==
    LET
        MessageLists ==
            LET
                \* listed messages: distinct ids
                MessageIds == { <<"m", Digit[k]>> : k \in 1..MaxListed }
            IN  { l \in ListsOf(MessageIds, MaxListed) :
                    \A a, b \in DOMAIN l.items : a /= b => l.items[a] /= l.items[b] }
    IN  \E status \in Statuses, data \in MessageLists : GmailListResponds(status, data)

DetailArrives ==
    LET
        \* upstream message details: what the Subject, From and Date header values
        \* and detail.snippet evaluate to (undefined when missing)
        Details ==
            { [subject |-> JsString(<<"S">>), from |-> JsString(<<"F">>),
               date |-> JsString(<<"D">>), snippet |-> JsString(<<"x">>)],
              [subject |-> JsUndefined, from |-> JsUndefined,
               date |-> JsUndefined, snippet |-> JsUndefined],
              [subject |-> JsString(Empty), from |-> JsString(<<"F">>),
               date |-> JsUndefined, snippet |-> JsString(Empty)] }
    IN  \E i \in 1..MaxListed, status \in Statuses :
            \E detail \in (IF IsOk(status) THEN Details ELSE {NoDetail}) :
                DetailResponds(i, status, detail)

NextTools ==
    \/ ToolIsCalled
    \/ ContactsListArrives
    \/ GmailListArrives
    \/ DetailArrives

SpecTools == Init /\ [][NextTools]_vars

(* One request to the traces routes over a span table that the tracer has *)
(* filled; thread A of u1 and thread B of u2 exist.                        *)
TraceCallers == {Empty, <<"u", "1">>}

SpanStarts ==
    LET
        StartTimes == {1, 2}
    IN  /\ reply = NoReply
        /\ \E traceId \in TraceIds,
              parentSpanId \in {NullId, IF spans = <<>> THEN <<"s", "0">> ELSE spans[1].spanId},
              startedAt \in StartTimes :
               SpanRecorded(traceId, parentSpanId, startedAt)

SpanEnds ==
    LET
        EndTimes == {2, 3}
    IN  /\ reply = NoReply
        /\ \E i \in DOMAIN spans, endedAt \in EndTimes : SpanSealed(i, endedAt)

GetTrace ==
    LET
        TraceParams == TraceIds \cup {<<"a", "3">>}
    IN  /\ reply = NoReply
        /\ \E session \in TraceCallers, traceId \in TraceParams :
               TraceDetailRequest(session, traceId)

GetTraces ==
    LET
        PageInputs == {NotGiven, Given(1)}
        LimitInputs == {NotGiven, Given(1), Given(2)}
        \* c.req.query("groupBy") || "conversation"
        GroupByInputs ==
            LET
                TraceWord == <<"t", "r", "a", "c", "e">>
            IN  {JsUndefined, JsString(TraceWord)}
    IN  /\ reply = NoReply
        /\ \E session \in TraceCallers, groupBy \in GroupByInputs,
              limit \in LimitInputs, page \in PageInputs :
               ListTracesRequest(session, groupBy, limit, page)

GetConversationTraces ==
    /\ reply = NoReply
    /\ \E session \in TraceCallers, threadId \in {<<"A">>, <<"B">>, <<"C">>} :
           ConversationTracesRequest(session, threadId)

InitTraces ==
    /\ store = <<>>
    /\ turns = <<>>
    /\ last = NoExchange
    /\ nreq = 0
    /\ clock = 1
    /\ threads = <<SeededThread, [SeededThread EXCEPT !.id = <<"B">>,
                                                     !.resourceId = <<"u", "2">>]>>
    /\ Untouched

NextTraces ==
    \/ SpanStarts
    \/ SpanEnds
    \/ GetTrace
    \/ GetTraces
    \/ GetConversationTraces

SpecTraces == InitTraces /\ [][NextTraces]_vars

(* The stream route over any account table: users with no, one or several  *)
(* linked Google records.                                                  *)
InitAccounts ==
    LET
        \* a row of the account table; the k-th row carries the token gk
        AccountRows(k) ==
            [userId : Users, providerId : {"google", "github"},
             accessToken : {<<"g", Digit[k]>>}, createdAt : {1, 2}]
    IN  /\ threads = <<>>
        /\ store = <<>>
        /\ turns = <<>>
        /\ last = NoExchange
        /\ nreq = 0
        /\ clock = 1
        /\ tool = NoToolCall
        /\ spans = <<>>
        /\ reply = NoReply
        /\ client = NoClient
        /\ accounts \in UNION { { t \in [1..n -> UNION { AccountRows(k) : k \in 1..n }] :
                                    \A k \in 1..n : t[k] \in AccountRows(k) }
                                : n \in 0..MaxAccounts }

PostStreamAccounts ==
    PostStreamFrom(Users, {JsString(<<"h", "i">>)}, {JsUndefined}, {TRUE},
                   AccountsRequests, AccountsRequests, AccountsRequests)

NextAccounts ==
    \/ PostStreamAccounts
    \/ ModelCompletes

SpecAccounts == InitAccounts /\ [][NextAccounts]_vars

(* A turn whose model asks for tools: the stream route, the agent loop,    *)
(* the tool adapters against their upstream, and the response stream.      *)
\* the turns of a run come one after the other
PostStreamTurn ==
    /\ \A i \in DOMAIN turns : turns[i].state /= "open"
    /\ PostStreamFrom(Users, {JsString(<<"h", "i">>)}, {JsUndefined}, {TRUE},
                      TurnTurns, TurnTurns, TurnTurns)

\* the upstream of the running tool answers: a list of one person or of one
\* message, the detail of that message, or a status that is not 2xx
UpstreamAnswers ==
    LET person == [displayName |-> JsString(<<"A", "l">>), email |-> JsString(<<"e">>),
                   phone |-> JsUndefined]
        detail == [subject |-> JsString(<<"S">>), from |-> JsString(<<"F">>),
                   date |-> JsString(<<"D">>), snippet |-> JsString(<<"x">>)]
    IN  \E status \in {200, 500} :
            \/ \E data \in ListsOf({person}, 1) : ContactsListResponds(status, data)
            \/ \E data \in ListsOf({<<"m", "1">>}, 1) : GmailListResponds(status, data)
            \/ DetailResponds(1, status, IF IsOk(status) THEN detail ELSE NoDetail)

\* the model asks for a tool, yields text, completes or throws while it
\* generates; a finished tool call goes back to the model
NextTurn ==
    \/ PostStreamTurn
    \/ \E i \in DOMAIN turns, adapter \in {"contacts", "gmail"} :
          ModelRequestsTool(i, adapter, [given |-> FALSE, n |-> 0])
    \/ UpstreamAnswers
    \/ \E i \in DOMAIN turns : ToolResultFedBack(i)
    \/ /\ TotalProduced(Len(turns)) < TurnChunks
       /\ \E i \in DOMAIN turns :
             turns[i].phase = "generating" /\ EmitChunk(i, <<"H", "i">>)
    \/ \E i \in DOMAIN turns : turns[i].phase = "generating" /\ StreamComplete(i)
    \/ \E i \in DOMAIN turns : turns[i].phase = "generating" /\ StreamThrow(i)

SpecTurn == Init /\ [][NextTurn]_vars

(* The chat page: the user submits messages, the requests of the calls    *)
(* settle in any order, the body of a stream response arrives in reads of  *)
(* whole frames, and history results arrive for the current thread.        *)
NextClient ==
    \/ /\ client.submits < MaxSends
       /\ \E input \in {<<"h", "i">>, <<" ">>} : handleSubmit(input)
    \/ \E c \in DOMAIN client.calls, outcome \in {"throws", "notOk", "ok"} :
          ThreadRequestSettles(c, outcome)
    \/ \E c \in DOMAIN client.calls, outcome \in {"throws", "notOk", "ok"} :
          StreamRequestSettles(c, outcome, Empty, <<<<"H", "i">>>>)
    \/ \E c \in DOMAIN client.calls, n \in 2..Len(WireOf(<<>>, <<<<"H", "i">>>>)) :
          /\ n <= Len(client.calls[c].wire)
          /\ SubSeq(client.calls[c].wire, n - 1, n) = FrameEnd
          /\ ReadDelivers(c, n)
    \/ \E c \in DOMAIN client.calls : ReadDone(c)
    \/ \E c \in DOMAIN client.calls : ReadThrows(c)
    \/ /\ client.loads < MaxHistoryLoads
       /\ \E messages \in {<<Message(0, "history", "user", <<"h", "i">>)>>} :
             HistoryArrives(messages)

SpecClient == Init /\ [][NextClient]_vars

(* The reader of the chat page: one turn whose response carries a trace id *)
(* of 32 hexadecimal characters and text chunks, some of which look like   *)
(* one; the transport cuts the body anywhere.                              *)
NextReader ==
    LET hex == [k \in 1..TraceIdLength |-> IF k % 2 = 1 THEN "a" ELSE "1"]
        chunkLists == { <<<<"H", "i">>>>, <<hex>>, <<<<"H", "i">>, <<"\"", "\n">>>> }
    IN  \/ /\ client.submits < 1
           /\ handleSubmit(<<"h", "i">>)
        \/ \E c \in DOMAIN client.calls : ThreadRequestSettles(c, "ok")
        \/ \E c \in DOMAIN client.calls, chunks \in chunkLists :
              StreamRequestSettles(c, "ok", hex, chunks)
        \/ \E c \in DOMAIN client.calls :
              \E n \in 1..Len(client.calls[c].wire) :
                 /\ client.calls[c].reads + 1 < ReaderReads \/ n = Len(client.calls[c].wire)
                 /\ ReadDelivers(c, n)
        \/ \E c \in DOMAIN client.calls : ReadDone(c)

SpecReader == Init /\ [][NextReader]_vars

(* The trace recorder at work: the observability that the Mastra instance  *)
(* enables writes the spans of each turn. Every unit of work (the turn, a  *)
(* model call, a tool call) gets a span when it begins, with the span of   *)
(* the enclosing unit as parent and the turn as root, and the span is      *)
(* sealed when the unit completes, after the units it encloses.            *)

\* a turn begins: its span is the root of a new trace
TurnSpanStarts ==
    /\ Len(spans) < RecorderSpans
    /\ \E traceId \in TraceIds :
        /\ \A k \in DOMAIN spans : spans[k].traceId /= traceId
        /\ spans' = Append(spans, SpanRow(traceId, NullId, clock))
    /\ UNCHANGED <<chatVars, toolVars, reply, accounts, client>>

\* a unit without an enclosing unit: its span has no parent
UnitSpanStartsDetached ==
    /\ Len(spans) < RecorderSpans
    /\ \E k \in DOMAIN spans :
        /\ spans[k].endedAt = NullTime
        /\ spans' = Append(spans, SpanRow(spans[k].traceId, NullId, clock))
    /\ UNCHANGED <<chatVars, toolVars, reply, accounts, client>>

\* a model call or a tool call begins inside a unit that is still at work
UnitSpanStarts ==
    /\ Len(spans) < RecorderSpans
    /\ \E k \in DOMAIN spans :
        /\ spans[k].endedAt = NullTime
        /\ spans' = Append(spans, SpanRow(spans[k].traceId, spans[k].spanId, clock))
    /\ UNCHANGED <<chatVars, toolVars, reply, accounts, client>>

\* a unit completes once the units it encloses have completed
UnitSpanSeals ==
    \E k \in DOMAIN spans :
        /\ \A j \in DOMAIN spans :
            spans[j].parentSpanId = spans[k].spanId => spans[j].endedAt /= NullTime
        /\ SpanSealed(k, clock)

NextRecorder ==
    \/ TurnSpanStarts
    \/ UnitSpanStarts
    \/ UnitSpanSeals
    \/ Tick

SpecRecorder == Init /\ [][NextRecorder]_vars

----------------------------------------------------------------------------
(* Reading a response                                                      *)

Last(s) == s[Len(s)]

\* the exchange that the step just served
Served(route) == last'.id /= last.id /\ last'.route = route

IdsOf(ms) == { ms[k].id : k \in DOMAIN ms }

\* position of the message with the given id in a list (0 if absent)
PositionOf(ms, id) ==
    IF \E k \in DOMAIN ms : ms[k].id = id
    THEN CHOOSE k \in DOMAIN ms : ms[k].id = id
    ELSE 0

IsTraceFrame(f) == StartsWith(f, TraceEventLine)
IsDone(f) == f = DataPrefix \o <<"[", "D", "O", "N", "E", "]", "\n", "\n">>
IsTextFrame(f) == StartsWith(f, DataPrefix) /\ ~IsDone(f)

\* the JSON text between "data: " and the blank line that ends the frame
PayloadOf(f) ==
    IF IsTraceFrame(f)
    THEN SubSeq(f, Len(TraceEventLine) + Len(DataPrefix) + 1, Len(f) - 2)
    ELSE SubSeq(f, Len(DataPrefix) + 1, Len(f) - 2)

EndsFrame(f) == Len(f) >= 2 /\ f[Len(f)] = "\n" /\ f[Len(f) - 1] = "\n"

----------------------------------------------------------------------------
(* C1: on every protected route, a request whose session lookup yields no  *)
(* session is answered 401 {error: "Unauthorized"} and the handler never   *)
(* runs: no session on the context, no credential lookup, no agent call,   *)
(* no memory access, the store and the turns unchanged. With a session     *)
(* the handler runs and sees exactly that session.                         *)

AuthGateResponse ==
    last.id > 0 =>
        IF last.session = Empty
        THEN /\ last.status = 401
             /\ last.error = "Unauthorized"
             /\ ~last.handlerRan
             /\ last.ctx = Empty
             /\ ~last.credLookup /\ ~last.agentCalled /\ ~last.memAccess
             /\ last.messages = <<>> /\ last.stream = 0
        ELSE /\ last.handlerRan
             /\ last.ctx = last.session
             /\ last.status /= 401

AuthGateNoEffect ==
    (last'.id /= last.id /\ last'.session = Empty) => (store' = store /\ turns' = turns)

----------------------------------------------------------------------------
(* C2: POST /chat/stream by an authenticated caller with a message that    *)
(* is missing, empty or not a string answers 400 {error: "Message is       *)
(* required"}; the credential lookup and agent.stream are not invoked, no  *)
(* turn starts and no message is stored.                                   *)

MissingEmptyOrNotString(m) == m.type /= "string" \/ m.val = <<>>

BadMessageResponse ==
    (last.route = "stream" /\ last.session /= Empty /\ MissingEmptyOrNotString(last.message))
        => /\ last.status = 400
           /\ last.error = "Message is required"
           /\ ~last.credLookup /\ ~last.agentCalled
           /\ last.stream = 0

BadMessageNoEffect ==
    (Served("stream") /\ MissingEmptyOrNotString(last'.message))
        => (store' = store /\ turns' = turns)

C2_BadMessage == []BadMessageResponse /\ [][BadMessageNoEffect]_vars

C2_Witness ==
    /\ last.route = "stream"
    /\ last.status = 400
    /\ last.message.type = "number"
    /\ Len(turns) > 0

----------------------------------------------------------------------------
(* C3: every turn of an authenticated caller with a non-empty string       *)
(* message is answered 200 text/event-stream, and a stream that reached    *)
(* [DONE] carries at least one non-empty frame before it, also when the    *)
(* model yields no chunk and no trace id is known.                         *)

C3_FrameBeforeDone ==
    /\ (last.route = "stream" /\ last.session /= Empty
          /\ ~MissingEmptyOrNotString(last.message))
        => (last.status = 200 /\ last.ctype = "text/event-stream")
    /\ \A i \in DOMAIN turns :
        (turns[i].frames /= <<>> /\ IsDone(Last(turns[i].frames)))
            => \E k \in 1..(Len(turns[i].frames) - 1) : turns[i].frames[k] /= <<>>

----------------------------------------------------------------------------
(* C4: a turn whose text stream completes has exactly one [DONE] frame,    *)
(* as its last frame, and its stream is closed with it: nothing is ever    *)
(* emitted on a closed stream.                                             *)

DoneCount(frames) == Cardinality({ k \in DOMAIN frames : IsDone(frames[k]) })

SingleTerminalFrame ==
    \A i \in DOMAIN turns :
        /\ turns[i].state = "closed"
            => (DoneCount(turns[i].frames) = 1 /\ IsDone(Last(turns[i].frames)))
        /\ DoneCount(turns[i].frames) > 0 => turns[i].state = "closed"

NothingAfterDone ==
    \A i \in DOMAIN turns :
        turns[i].state = "closed"
            => (turns'[i].frames = turns[i].frames /\ turns'[i].state = "closed")

C4_DoneOnceAndLast == []SingleTerminalFrame /\ [][NothingAfterDone]_vars

C4_Witness ==
    \E i \in DOMAIN turns :
        /\ turns[i].state = "closed"
        /\ turns[i].traceId /= Empty
        /\ Len(turns[i].produced) = 2

----------------------------------------------------------------------------
(* C5: when the model text stream throws after the response has started,   *)
(* the response stream is still closed cleanly with the terminal frame.    *)

C5_ThrowStillEndsWithDone ==
    \A i \in DOMAIN turns :
        turns[i].threw
            => (turns[i].state = "closed" /\ turns[i].frames /= <<>>
                /\ IsDone(Last(turns[i].frames)))

----------------------------------------------------------------------------
(* C6: in a turn the traceId frame is emitted at most once and before any  *)
(* text frame, and the text frames are, in order, one complete JSON        *)
(* encoded data frame per chunk the model yielded: none dropped,           *)
(* duplicated, merged or reordered.                                        *)

TextFramesOf(frames) == SelectSeq(frames, IsTextFrame)

\* one event per frame: a frame ends with the blank line and holds no other
NoBlankLineInside(f) ==
    \A k \in 1..(Len(f) - 2) : ~(f[k] = "\n" /\ f[k + 1] = "\n")

C6_FramesInModelOrder ==
    \A i \in DOMAIN turns :
        LET frames == turns[i].frames
            text == TextFramesOf(frames)
        IN  /\ Cardinality({ k \in DOMAIN frames : IsTraceFrame(frames[k]) }) <= 1
            /\ \A k \in DOMAIN frames : IsTraceFrame(frames[k]) => k = 1
            /\ (turns[i].traceId /= Empty)
                => (frames /= <<>> /\ IsTraceFrame(frames[1])
                    /\ JSONparse(PayloadOf(frames[1])) = turns[i].traceId)
            /\ \A k \in DOMAIN frames :
                IsTraceFrame(frames[k]) \/ IsTextFrame(frames[k]) \/ IsDone(frames[k])
            /\ Len(text) = Len(turns[i].produced)
            /\ \A k \in DOMAIN text :
                /\ JSONparse(PayloadOf(text[k])) = turns[i].produced[k]
                /\ EndsFrame(text[k])
                /\ NoBlankLineInside(text[k])
                /\ \A c \in DOMAIN PayloadOf(text[k]) : PayloadOf(text[k])[c] /= "\n"

C6_Witness ==
    \E i \in DOMAIN turns :
        /\ turns[i].traceId /= Empty
        /\ Len(turns[i].produced) = 2
        /\ turns[i].produced[1] /= turns[i].produced[2]
        /\ \E c \in DOMAIN turns[i].produced[1] : turns[i].produced[1][c] = "\n"

----------------------------------------------------------------------------
(* What a request names: the thread a threadId stands for, the stored      *)
(* messages of a thread of a user.                                         *)

DefaultThread(userId) == <<"t", "h", "r", "e", "a", "d", "-">> \o userId

Omitted(threadId) == threadId.type /= "string" \/ threadId.val = <<>>

NamedThread(threadId, userId) ==
    IF Omitted(threadId) THEN DefaultThread(userId) ELSE threadId.val

StoredIn(threadId, userId) ==
    { k \in DOMAIN store : store[k].thread = threadId /\ store[k].resource = userId }

\* createdAt as a time, a message without createdAt being of the epoch
TimeKey(m) == IF m.createdAt = -1 THEN 0 ELSE m.createdAt

StoragePosition(m) == CHOOSE k \in DOMAIN store : store[k] = m

HistoryServed == Served("history") /\ last'.status = 200

\* the turns of a user on a thread
TurnsOn(threadId, userId) ==
    { i \in DOMAIN turns :
        /\ turns[i].user = userId
        /\ NamedThread(turns[i].threadInput, turns[i].user) = threadId }

----------------------------------------------------------------------------
(* C7: GET /chat/history returns all stored messages of the thread,        *)
(* whatever their storage order, sorted ascending by createdAt, a message  *)
(* without createdAt counting as the epoch and equal timestamps keeping    *)
(* their stored order; so the user messages of turns submitted one after   *)
(* another appear in submission order.                                     *)

HistorySorted ==
    HistoryServed =>
        LET r == last'.messages
            u == last'.ctx
            t == NamedThread(last'.threadId, u)
        IN  /\ Len(r) = Cardinality(StoredIn(t, u))
            /\ \A k \in StoredIn(t, u) : \E j \in DOMAIN r : r[j] = store[k]
            /\ \A a, b \in DOMAIN r :
                a < b => /\ TimeKey(r[a]) <= TimeKey(r[b])
                         /\ TimeKey(r[a]) = TimeKey(r[b])
                              => StoragePosition(r[a]) < StoragePosition(r[b])
            /\ \A i, j \in TurnsOn(t, u) :
                i < j => /\ PositionOf(r, turns[i].userMsgId) > 0
                         /\ PositionOf(r, turns[i].userMsgId)
                              < PositionOf(r, turns[j].userMsgId)

C7_HistoryChronological == [][HistorySorted]_vars

C7_Witness ==
    /\ last.route = "history"
    /\ Len(last.messages) >= 4
    /\ \E a, b \in DOMAIN last.messages :
        a < b /\ last.messages[a].id > last.messages[b].id
    /\ \E a \in DOMAIN last.messages : last.messages[a].createdAt = -1
    /\ Len(turns) = 2
    /\ turns[1].thread = turns[2].thread
    /\ turns[1].thread = last.messages[1].thread

----------------------------------------------------------------------------
(* C8: a history query returns exactly the messages stored by the turns of *)
(* that thread: the user message of every turn with the role and content   *)
(* that were sent, an assistant message for every completed turn, and      *)
(* nothing else.                                                           *)

Completed(ts) == { i \in ts : turns[i].state = "closed" }

HistoryRoundTrip ==
    HistoryServed =>
        LET r == last'.messages
            u == last'.ctx
            t == NamedThread(last'.threadId, u)
        IN  /\ \A i \in TurnsOn(t, u) :
                \E j \in DOMAIN r :
                    /\ r[j].id = turns[i].userMsgId
                    /\ r[j].role = "user"
                    /\ r[j].content = turns[i].message
            /\ \A i \in Completed(TurnsOn(t, u)) :
                \E j \in DOMAIN r :
                    /\ r[j].id = turns[i].asstMsgId
                    /\ r[j].role = "assistant"
                    /\ r[j].content = Concat(turns[i].produced)
            /\ Len(r) = Cardinality(TurnsOn(t, u)) + Cardinality(Completed(TurnsOn(t, u)))

C8_HistoryRoundTrip == [][HistoryRoundTrip]_vars

C8_Witness ==
    /\ last.route = "history"
    /\ Len(last.messages) = 4
    /\ \E a \in DOMAIN last.messages :
        last.messages[a].role = "assistant" /\ last.messages[a].content /= <<>>

----------------------------------------------------------------------------
(* C9: a message posted with one thread id never appears in the history of *)
(* a different thread id, the default thread of the caller included.       *)

ThreadIsolation ==
    HistoryServed =>
        LET r == last'.messages
            u == last'.ctx
            t == NamedThread(last'.threadId, u)
        IN  \A i \in DOMAIN turns :
                NamedThread(turns[i].threadInput, turns[i].user) /= t
                    => /\ turns[i].userMsgId \notin IdsOf(r)
                       /\ turns[i].asstMsgId \notin IdsOf(r)

C9_ThreadIsolation == [][ThreadIsolation]_vars

C9_Witness ==
    /\ last.route = "history"
    /\ last.status = 200
    /\ last.threadId = JsUndefined
    /\ last.messages /= <<>>
    /\ \E i \in DOMAIN turns :
        /\ turns[i].user = last.ctx
        /\ turns[i].threadInput = JsString(<<"A">>)
        /\ turns[i].state = "closed"

----------------------------------------------------------------------------
(* C10: without a threadId (none, or an empty one) the stream route and    *)
(* the history route both use thread-<userId> with the caller as resource, *)
(* with a threadId both use the supplied value; a message sent without a   *)
(* threadId is in the default history of its sender and of nobody else.    *)

MessageById(id) == store[CHOOSE k \in DOMAIN store : store[k].id = id]

TurnThread ==
    \A i \in DOMAIN turns :
        /\ turns[i].thread = NamedThread(turns[i].threadInput, turns[i].user)
        /\ turns[i].resource = turns[i].user
        /\ MessageById(turns[i].userMsgId).thread = turns[i].thread
        /\ MessageById(turns[i].userMsgId).resource = turns[i].user

HistoryThread ==
    HistoryServed =>
        LET r == last'.messages
            u == last'.ctx
        IN  /\ \A j \in DOMAIN r :
                /\ r[j].thread = NamedThread(last'.threadId, u)
                /\ r[j].resource = u
            /\ Omitted(last'.threadId) =>
                \A i \in DOMAIN turns :
                    Omitted(turns[i].threadInput)
                        => (turns[i].userMsgId \in IdsOf(r) <=> turns[i].user = u)

C10_DefaultThread == []TurnThread /\ [][HistoryThread]_vars

C10_Witness ==
    /\ last.route = "history"
    /\ last.status = 200
    /\ last.ctx = <<"u", "2">>
    /\ Omitted(last.threadId)
    /\ last.messages /= <<>>
    /\ \E i \in DOMAIN turns :
        turns[i].user = <<"u", "1">> /\ Omitted(turns[i].threadInput)

----------------------------------------------------------------------------
(* C11: a turn submitted to POST /chat/stream without a thread identity    *)
(* gets a thread of its own, created by that request before the model is   *)
(* invoked: the thread was not known before the request (no thread record, *)
(* no earlier turn) and is recorded after it.                              *)

StreamAccepted == Served("stream") /\ last'.status = 200

FreshThreadForTurn ==
    (StreamAccepted /\ Omitted(last'.threadId)) =>
        LET t == turns'[Len(turns')]
        IN  /\ t.thread \notin ThreadIds
            /\ \A i \in DOMAIN turns : turns[i].thread /= t.thread
            /\ t.thread \in ThreadIds'

C11_NewThreadPerFirstTurn == [][FreshThreadForTurn]_vars

----------------------------------------------------------------------------
(* C17: DELETE /chat/threads/:id for a thread that does not exist or that  *)
(* the caller does not own returns 404 and deletes no message of any       *)
(* thread.                                                                 *)

DeleteServed == Served("deleteThread") /\ last'.handlerRan

OwnedBy(threadId, userId) ==
    \E k \in DOMAIN threads :
        threads[k].id = threadId /\ threads[k].resourceId = userId

DeleteOfForeignThread ==
    (DeleteServed /\ ~OwnedBy(last'.param, last'.ctx)) =>
        /\ last'.status = 404
        /\ ~last'.success
        /\ store' = store
        /\ threads' = threads

C17_DeleteNotFound == [][DeleteOfForeignThread]_vars

C17_Witness ==
    /\ last.route = "deleteThread"
    /\ last.status = 404
    /\ \E k \in DOMAIN threads :
        threads[k].id = last.param /\ threads[k].resourceId /= last.ctx
    /\ \E k \in DOMAIN store : store[k].thread = last.param

----------------------------------------------------------------------------
(* C18: a DELETE /chat/threads/:id by the owner answers {success: true},   *)
(* removes every message of the thread (its history is empty afterwards),  *)
(* leaves the messages of every other thread as they were and keeps the    *)
(* thread record, which GET /chat/threads goes on returning.               *)

RECURSIVE OfOtherThreads(_, _)
OfOtherThreads(s, threadId) ==
    IF s = <<>> THEN <<>>
    ELSE (IF Head(s).thread /= threadId THEN <<Head(s)>> ELSE <<>>)
         \o OfOtherThreads(Tail(s), threadId)

\* what the caller of the last request gets from the history of the thread
\* it named, and whether every listing of its threads holds that thread
HistoryOfDeleted == HistoryOf(last.ctx, JsString(last.param))

StillListed ==
    \A l \in ThreadListings(last.ctx) : \E k \in DOMAIN l : l[k].id = last.param

DeleteByOwner ==
    (DeleteServed /\ OwnedBy(last'.param, last'.ctx)) =>
        /\ last'.status = 200
        /\ last'.success
        /\ \A k \in DOMAIN store' : store'[k].thread /= last'.param
        /\ store' = OfOtherThreads(store, last'.param)
        /\ HistoryOfDeleted' = <<>>
        /\ threads' = threads
        /\ StillListed'

OwnThreadsListed ==
    (Served("threads") /\ last'.handlerRan) =>
        { last'.threads[k].id : k \in DOMAIN last'.threads }
            = { threads[k].id : k \in { j \in DOMAIN threads :
                                          threads[j].resourceId = last'.ctx } }

C18_DeleteByOwner == [][DeleteByOwner]_vars /\ [][OwnThreadsListed]_vars

C18_Witness ==
    /\ last.route = "threads"
    /\ store /= <<>>
    /\ \E k \in DOMAIN last.threads, i \in DOMAIN turns :
        /\ turns[i].thread = last.threads[k].id
        /\ turns[i].state = "closed"
        /\ turns[i].userMsgId \notin IdsOf(store)
        /\ turns[i].asstMsgId \notin IdsOf(store)

----------------------------------------------------------------------------
(* C12: called without a resolved credential (no runtime context, no       *)
(* token, or the empty token that the stream route stores for a user       *)
(* without a linked account), the contacts and the mail adapter fail with  *)
(* exactly "Google access token not available" and call nothing upstream,  *)
(* whatever their input.                                                   *)

NoCredential(credential) ==
    \/ ~credential.context
    \/ credential.token.type = "undefined"
    \/ credential.token.val = <<>>

C12_CredentialMissing ==
    (tool.phase /= "idle" /\ NoCredential(tool.credential)) =>
        /\ tool.phase = "failed"
        /\ tool.error = TokenNotAvailable
        /\ tool.calls = <<>>
        /\ tool.output = <<>>

C12_Witness ==
    /\ tool.phase = "failed"
    /\ tool.adapter = "gmail"
    /\ tool.credential = RouteContext(NoAccount)
    /\ tool.maxResults = 1

----------------------------------------------------------------------------
(* C13: for a contacts response, with or without a connection list, the    *)
(* adapter returns one contact per upstream entry; each has a string name  *)
(* ("Unknown" when the entry has no display name) and an email and a phone *)
(* that are the upstream strings, or absent when the entry has none: never *)
(* null, never an empty string in their place.                             *)

ContactsReturned == tool.phase = "done" /\ tool.adapter = "contacts"

UpstreamLength == IF tool.upstream.present THEN Len(tool.upstream.items) ELSE 0

StringOrAbsent(out, upstream) ==
    /\ out.type \in {"string", "undefined"}
    /\ upstream.type = "undefined" => out.type = "undefined"
    /\ upstream.type = "string" => out = upstream

C13_ContactsShape ==
    ContactsReturned =>
        /\ Len(tool.output) = UpstreamLength
        /\ \A k \in DOMAIN tool.output :
            LET contact == tool.output[k]
                person == tool.upstream.items[k]
            IN  /\ contact.name.type = "string"
                /\ contact.name.val /= <<>>
                /\ person.displayName.type = "undefined" => contact.name.val = Unknown
                /\ StringOrAbsent(contact.email, person.email)
                /\ StringOrAbsent(contact.phone, person.phone)

C13_Witness ==
    /\ ContactsReturned
    /\ Len(tool.output) = 2
    /\ tool.output[1].name.val = Unknown
    /\ tool.output[1].email.type = "undefined"
    /\ tool.output[2].email.type = "string"
    /\ tool.output[2].phone.type = "undefined"

----------------------------------------------------------------------------
(* C14: for a message list response and any maxResults, the mail adapter   *)
(* returns one email per listed message, each with id, subject, from, date *)
(* and snippet as strings.                                                 *)

EmailsReturned == tool.phase = "done" /\ tool.adapter = "gmail"

C14_EmailsShape ==
    EmailsReturned =>
        /\ Len(tool.output) = UpstreamLength
        /\ \A k \in DOMAIN tool.output :
            /\ tool.output[k].id /= <<>>
            /\ tool.output[k].subject.type = "string"
            /\ tool.output[k].from.type = "string"
            /\ tool.output[k].date.type = "string"
            /\ tool.output[k].snippet.type = "string"

----------------------------------------------------------------------------
(* C15: when the message list call succeeds, the mail adapter succeeds     *)
(* whatever the detail requests answer: a message whose detail request     *)
(* fails gets a placeholder with its own id, every other message its own   *)
(* result; only a failed list call fails the adapter, and then no detail   *)
(* request is issued.                                                      *)

ExpectedEmail(id, response) ==
    IF response.status >= 200 /\ response.status < 300
    THEN [id |-> id,
          subject |-> IF response.detail.subject \in {JsUndefined, JsString(<<>>)}
                      THEN JsString(NoSubject) ELSE response.detail.subject,
          from |-> IF response.detail.from \in {JsUndefined, JsString(<<>>)}
                   THEN JsString(Unknown) ELSE response.detail.from,
          date |-> IF response.detail.date = JsUndefined
                   THEN JsString(<<>>) ELSE response.detail.date,
          snippet |-> IF response.detail.snippet = JsUndefined
                      THEN JsString(<<>>) ELSE response.detail.snippet]
    ELSE [id |-> id, subject |-> JsString(ErrorFetchingEmail),
          from |-> JsString(Unknown), date |-> JsString(<<>>),
          snippet |-> JsString(<<>>)]

----------------------------------------------------------------------------
(* C16: the results of an adapter are in the order of the upstream list:   *)
(* contact i comes from connection i, email i carries the id of listed     *)
(* message i, in whatever order the detail requests are answered.          *)

C16_ListOrderKept ==
    /\ EmailsReturned =>
        \A i \in DOMAIN tool.output : tool.output[i].id = tool.upstream.items[i]
    /\ ContactsReturned =>
        \A i \in DOMAIN tool.output :
            /\ tool.output[i].email = tool.upstream.items[i].email
            /\ tool.output[i].phone = tool.upstream.items[i].phone
            /\ tool.upstream.items[i].displayName.type = "string"
                => tool.output[i].name = tool.upstream.items[i].displayName

C16_Witness ==
    /\ EmailsReturned
    /\ tool.order = <<2, 1>>
    /\ tool.output[1].subject /= tool.output[2].subject

----------------------------------------------------------------------------
(* C19: GET /traces/:traceId answers 404 exactly when no span has the      *)
(* trace id; otherwise it returns all the spans of the trace and no other, *)
(* by start time ascending, and reports the start time and the metadata of *)
(* the root: the first returned span without a parent, or the first        *)
(* returned span when every span has a parent.                             *)

TraceServed == reply'.id /= reply.id /\ reply'.route = "trace" /\ reply'.handlerRan

SpansOfTrace(traceId) == { k \in DOMAIN spans : spans[k].traceId = traceId }

RootPosition(views) ==
    LET parentless == { k \in DOMAIN views : views[k].parentSpanId = <<>> }
    IN  IF parentless = {} THEN 1
        ELSE CHOOSE k \in parentless : \A j \in parentless : k <= j

TraceDetail ==
    TraceServed =>
        LET rows == SpansOfTrace(reply'.traceId)
            views == reply'.spans
        IN  /\ reply'.status = 404 <=> rows = {}
            /\ reply'.status /= 404 =>
                /\ reply'.status = 200
                /\ Len(views) = Cardinality(rows)
                /\ \A k \in rows : \E j \in DOMAIN views :
                    /\ views[j].id = spans[k].spanId
                    /\ views[j].traceId = reply'.traceId
                    /\ views[j].startTime = spans[k].startedAt
                    /\ views[j].endTime = spans[k].endedAt
                    /\ views[j].parentSpanId = spans[k].parentSpanId
                /\ \A a, b \in DOMAIN views :
                    a < b => views[a].startTime <= views[b].startTime
                /\ reply'.startTime = views[RootPosition(views)].startTime
                /\ reply'.metadata = views[RootPosition(views)].metadata

C19_TraceDetail == [][TraceDetail]_vars

C19_Witness ==
    /\ reply.route = "trace"
    /\ reply.status = 200
    /\ Len(reply.spans) = 2
    /\ Len(spans) = 2
    /\ reply.spans[1].parentSpanId /= <<>>
    /\ reply.spans[2].parentSpanId = <<>>
    /\ reply.metadata = reply.spans[2].metadata
    /\ reply.startTime > reply.spans[1].startTime

----------------------------------------------------------------------------
(* C20: in the flat listing GET /traces?groupBy=trace the spans of the     *)
(* page are grouped by trace id, and the end time of each returned trace   *)
(* is the greatest end time among the spans of that trace, for every page  *)
(* size and page, also when the spans of the trace lie on different pages  *)
(* or have not ended.                                                      *)

FlatListServed ==
    /\ reply'.id /= reply.id
    /\ reply'.route = "list"
    /\ reply'.handlerRan
    /\ reply'.groupBy = "trace"

GreatestEnd(traceId) ==
    LET ends == { spans[k].endedAt : k \in SpansOfTrace(traceId) }
    IN  CHOOSE e \in ends : \A f \in ends : f <= e

FlatListEndTimes ==
    FlatListServed =>
        LET traces == reply'.traces
        IN  /\ \A a, b \in DOMAIN traces :
                a /= b => traces[a].traceId /= traces[b].traceId
            /\ \A k \in DOMAIN traces :
                /\ traces[k].spans /= <<>>
                /\ traces[k].endTime = GreatestEnd(traces[k].traceId)

C20_EndTimeIsMaximum == [][FlatListEndTimes]_vars

----------------------------------------------------------------------------
(* C21: GET /traces grouped by conversation (the default) returns one      *)
(* entry per thread of the requesting user and none for a thread of        *)
(* somebody else; each entry lists exactly the root spans whose metadata   *)
(* names that thread, latest start first, traceCount is the number of      *)
(* listed root spans, and a span with a parent is never listed.            *)

ConversationListServed ==
    /\ reply'.id /= reply.id
    /\ reply'.route = "list"
    /\ reply'.handlerRan
    /\ reply'.groupBy = "conversation"

RootsOfThread(threadId) ==
    { k \in DOMAIN spans :
        spans[k].parentSpanId = <<>> /\ spans[k].metadata.threadId = threadId }

ConversationListing ==
    ConversationListServed =>
        LET entries == reply'.conversations
            owned == { threads[j].id : j \in { i \in DOMAIN threads :
                                                 threads[i].resourceId = reply'.session } }
        IN  /\ reply'.status = 200
            /\ { entries[k].threadId : k \in DOMAIN entries } = owned
            /\ Len(entries) = Cardinality(owned)
            /\ \A k \in DOMAIN entries :
                LET listed == entries[k].traces
                    roots == RootsOfThread(entries[k].threadId)
                IN  /\ Len(listed) = Cardinality(roots)
                    /\ { listed[i] : i \in DOMAIN listed }
                         = { [traceId |-> spans[j].traceId,
                              startTime |-> spans[j].startedAt,
                              endTime |-> spans[j].endedAt] : j \in roots }
                    /\ \A a, b \in DOMAIN listed :
                         a < b => listed[a].startTime >= listed[b].startTime
                    /\ entries[k].traceCount = Len(listed)

----------------------------------------------------------------------------
(* C22: in a completed trace (every span of the turn sealed) exactly one   *)
(* span has no parent and the parent of every other span is a span of the  *)
(* same trace; a span starts no earlier than its parent, and a sealed span *)
(* ends no earlier than it starts.                                         *)

TraceCompleted(traceId) ==
    /\ SpansOfTrace(traceId) /= {}
    /\ \A k \in SpansOfTrace(traceId) : spans[k].endedAt /= 0

SpanTreeValid(traceId) ==
    LET of == SpansOfTrace(traceId)
    IN  /\ Cardinality({ k \in of : spans[k].parentSpanId = <<>> }) = 1
        /\ \A k \in of :
            spans[k].parentSpanId /= <<>> =>
                \E j \in of : /\ spans[j].spanId = spans[k].parentSpanId
                               /\ spans[j].startedAt <= spans[k].startedAt

----------------------------------------------------------------------------
(* C24: the credential lookup changes nothing; for a user with several     *)
(* linked records of the provider it yields the one linked last; for a     *)
(* user with none it yields no credential, and the stream route still      *)
(* answers 200 with an event stream and starts the turn.                   *)

LinkedRecords(userId) ==
    { k \in DOMAIN accounts :
        accounts[k].userId = userId /\ accounts[k].providerId = "google" }

LinkedLast(userId) ==
    { k \in LinkedRecords(userId) :
        \A j \in LinkedRecords(userId) : accounts[j].createdAt <= accounts[k].createdAt }

LookupResolved ==
    (last'.id /= last.id /\ last'.route = "stream" /\ last'.credLookup) =>
        LET user == last'.ctx
            turn == turns'[last'.stream]
        IN  /\ accounts' = accounts
            /\ last'.status = 200
            /\ last'.ctype = "text/event-stream"
            /\ Len(turns') = Len(turns) + 1
            /\ turn.state = "open"
            /\ LinkedRecords(user) = {} => turn.token = <<>>
            /\ LinkedRecords(user) /= {} =>
                \E k \in LinkedLast(user) : turn.token = accounts[k].accessToken

C24_LookupMostRecent == [][LookupResolved]_vars

\* C23: a tool that fails does not end the turn. The step that takes a thrown
\* tool error off the adapter leaves the turn open and generating, adds the
\* error to what the model is given, and writes no frame; whatever number of
\* tool round-trips a turn has made and however many of them failed, a turn
\* that has ended without a throw of the model stream has the DONE frame as
\* its last frame, once.
ToolFailureAbsorbed ==
    tool.phase = "failed" /\ tool'.phase = "idle" =>
        \E i \in DOMAIN turns :
            /\ turns[i].phase = "tool"
            /\ turns'[i].state = "open"
            /\ turns'[i].phase = "generating"
            /\ turns'[i].frames = turns[i].frames
            /\ turns'[i].toolResults =
                   Append(turns[i].toolResults,
                          [adapter |-> tool.adapter, failed |-> TRUE, error |-> tool.error])
            /\ \A j \in DOMAIN turns \ {i} : turns'[j] = turns[j]

EndsWithDoneAfterTools ==
    \A i \in DOMAIN turns :
        /\ turns[i].state = "errored" => turns[i].threw /\ turns[i].phase = "generating"
        /\ turns[i].state = "closed" =>
              /\ turns[i].frames[Len(turns[i].frames)] = DoneFrame
              /\ Cardinality({ k \in DOMAIN turns[i].frames :
                                  turns[i].frames[k] = DoneFrame }) = 1

C23_ToolFailureKeepsTurn == [][ToolFailureAbsorbed]_vars /\ []EndsWithDoneAfterTools

\* a turn that has ended with the DONE frame after two failed tool calls and
\* a chunk of text
C23_Witness ==
    \E i \in DOMAIN turns :
        /\ turns[i].state = "closed"
        /\ Len(turns[i].toolResults) = 2
        /\ \A k \in DOMAIN turns[i].toolResults : turns[i].toolResults[k].failed
        /\ turns[i].produced /= <<>>
        /\ turns[i].frames[Len(turns[i].frames)] = DoneFrame

\* C29: what a signed-in caller gets from the traces routes is of the
\* caller's own threads: every span of a trace detail, every trace of the
\* flat listing, every conversation and trace of the conversation listing and
\* every trace of the traces of one conversation names, in its metadata or by
\* its trace, a thread whose resourceId is the caller.
OwnsThread(userId, threadId) ==
    \E k \in DOMAIN threads : threads[k].id = threadId /\ threads[k].resourceId = userId

C29_TracesScopedToOwner ==
    reply.status = 200 /\ reply.handlerRan =>
        /\ \A k \in DOMAIN reply.spans :
              OwnsThread(reply.session, reply.spans[k].metadata.threadId)
        /\ \A k \in DOMAIN reply.traces :
              OwnsThread(reply.session, ThreadOfTrace(reply.traces[k].traceId))
        /\ \A k \in DOMAIN reply.conversations :
              /\ OwnsThread(reply.session, reply.conversations[k].threadId)
              /\ \A j \in DOMAIN reply.conversations[k].traces :
                    OwnsThread(reply.session,
                               ThreadOfTrace(reply.conversations[k].traces[j].traceId))

\* C30: the endTime of a trace detail is the latest endedAt of the spans of
\* the trace: no span of the detail ends after it, it is the end of one of
\* them, and when the root span is sealed it is set and not before startTime.
C30_DetailEndIsLatest ==
    reply.route = "trace" /\ reply.status = 200 =>
        /\ \A k \in DOMAIN reply.spans : reply.endTime >= reply.spans[k].endTime
        /\ \E k \in DOMAIN reply.spans : reply.endTime = reply.spans[k].endTime
        /\ (\E k \in DOMAIN reply.spans :
                reply.spans[k].isRootSpan /\ reply.spans[k].endTime /= NullTime)
              => reply.endTime /= NullTime /\ reply.endTime >= reply.startTime

\* the step in which call c reaches the given outcome
CallEndsAs(c, outcome) ==
    /\ c \in DOMAIN client.calls
    /\ client.calls[c].outcome = ""
    /\ client'.calls[c].outcome = outcome

\* C25: when a turn fails on the page (the stream response is not ok or the
\* fetch or a read of the body throws), the shown messages keep everything
\* they had, among it the message of the user and the assistant text that
\* was streamed so far, and get exactly one message more, the fallback.
FailureKeepsMessages ==
    \A c \in DOMAIN client.calls :
        CallEndsAs(c, "failed") =>
            /\ client'.messages = Append(client.messages, FallbackMessage(c))
            /\ \E k \in DOMAIN client.messages :
                  /\ client.messages[k].role = "user"
                  /\ client.messages[k].content = client.calls[c].content
            /\ client.calls[c].assistantContent /= <<>> =>
                  \E k \in DOMAIN client.messages :
                      /\ client.messages[k].role = "assistant"
                      /\ client.messages[k].content = client.calls[c].assistantContent
            /\ Cardinality({ k \in DOMAIN client'.messages :
                               client'.messages[k] = FallbackMessage(c) }) = 1

C25_FailureKeepsMessages == [][FailureKeepsMessages]_vars

\* C26: the page has at most one turn in flight: at most one call awaits or
\* reads POST /chat/stream, at most one thread is created for the new
\* conversation, and a submit while a turn is active leaves the messages as
\* they are.
OneTurnInFlight ==
    /\ Cardinality({ c \in DOMAIN client.calls :
                       client.calls[c].pc \in {"posting", "reading"} }) <= 1
    /\ client.created <= 1

SubmitDuringTurnIgnored ==
    (client'.submits > client.submits
        /\ \E c \in DOMAIN client.calls : client.calls[c].outcome = "")
    => client'.messages = client.messages

C26_OneTurnInFlight == []OneTurnInFlight /\ [][SubmitDuringTurnIgnored]_vars

\* C27: every call of handleSendMessage ends, whatever its outcome, with
\* isStreaming and isSendingRef false; and a history result that arrives
\* while isSendingRef is true leaves the shown messages as they are.
CallEndsWithFlagsCleared ==
    \A c \in DOMAIN client.calls :
        (\E outcome \in {"threadRejected", "threadThrew", "failed", "completed"} :
            CallEndsAs(c, outcome))
        => ~client'.isStreaming /\ ~client'.isSendingRef

HistoryKeptOutWhileSending ==
    client.isSendingRef /\ client'.loads > client.loads
        => client'.messages = client.messages

C27_FlagsClearedAtEnd ==
    [][CallEndsWithFlagsCleared /\ HistoryKeptOutWhileSending]_vars

\* C28: when the body of a turn has been read to its end, the text that the
\* page has assembled, and shows, is the concatenation of the text chunks
\* that the server framed, however the body was cut into reads and whatever
\* the chunks are.
C28_AssembledTextIsChunks ==
    \A c \in DOMAIN client.calls :
        client.calls[c].outcome = "completed" =>
            /\ client.calls[c].assistantContent = Concat(client.calls[c].chunks)
            /\ \E k \in DOMAIN client.messages :
                  client.messages[k] = Message(c, "assistant", "assistant",
                                               Concat(client.calls[c].chunks))
====
